---- MODULE Spec2Model ----
(***************************************************************************)
(* device-uuid: the asynchronous fingerprint orchestrator                  *)
(* (DeviceUUID.getDetailedAsync / getAsync) on a single-threaded event     *)
(* loop.  A macrotask (a call of getDetailedAsync, a browser API settling, *)
(* a timer firing) runs only when the microtask queue is empty; every      *)
(* await continuation is a job of the FIFO microtask queue.                *)
(***************************************************************************)
EXTENDS Integers, Sequences, FiniteSets, TLC

\* ------------------------------------------------------------------ bounds
\* Number of getDetailedAsync invocations the overlap scenario may have in
\* flight on one instance.
MaxCalls == 2

\* The marker substrings a user-agent string given to parse carries at most.
MaxMarkers == 3

\* The characters a custom-data argument of get has at most.
MaxData == 3

\* The calls made on one instance at most.
MaxOps == 3

\* The characters a string given to hashInt has at most.
MaxLen == 5

\* The magnitude of the counts given to calculateConfidence.
MaxCount == 5

Calls == 1..MaxCalls

\* ------------------------------------------------------------ vocabulary
Null == "null"

\* The optional signals, in the order getDetailedAsync handles them.
Signals == <<"canvas", "webgl", "audio", "fonts", "mediaDevices",
             "networkInfo", "timezone", "incognito">>

SignalSet == {Signals[k] : k \in 1..Len(Signals)}

\* Signals run as detached async tasks pushed to `tasks`.
TaskSignals == {"canvas", "webgl", "audio", "fonts", "mediaDevices", "incognito"}

\* Tasks started before the inline awaits, in source order.
EarlyTasks == <<"canvas", "webgl", "audio", "fonts", "mediaDevices">>

\* The option key of a signal (the incognito component is enabled by the
\* key incognitoDetection).
OptionKey(s) == IF s = "incognito" THEN "incognitoDetection" ELSE s

\* A number as JavaScript passes it to setTimeout: an integer, or NaN.
Num(n) == [nan |-> FALSE, n |-> n]

NaN == [nan |-> TRUE, n |-> 0]

\* --------------------------------------------------------------- options
\* An options object is the set of keys it carries and their values; a key
\* outside `keys` reads as undefined.
OptionValues(c, w, a, f, m, n, t, i, to, mt, p) ==
  [canvas |-> c, webgl |-> w, audio |-> a, fonts |-> f, mediaDevices |-> m,
   networkInfo |-> n, timezone |-> t, incognitoDetection |-> i,
   timeout |-> to, methodTimeout |-> mt, preset |-> p]

AllOptionKeys == {"canvas", "webgl", "audio", "fonts", "mediaDevices",
                  "networkInfo", "timezone", "incognitoDetection",
                  "timeout", "methodTimeout"}

DEFAULT_FINGERPRINT_OPTIONS ==
  [keys |-> AllOptionKeys,
   val  |-> OptionValues(FALSE, FALSE, FALSE, "false", FALSE, FALSE, FALSE, FALSE,
                         Num(5000), Num(1000), "")]

PresetNames == {"minimal", "standard", "comprehensive"}

FINGERPRINT_PRESETS(name) ==
  CASE name = "minimal" ->
         [keys |-> AllOptionKeys,
          val  |-> OptionValues(FALSE, FALSE, FALSE, "false", FALSE, FALSE, FALSE,
                                FALSE, Num(5000), Num(1000), "")]
    [] name = "standard" ->
         [keys |-> AllOptionKeys,
          val  |-> OptionValues(TRUE, TRUE, FALSE, "false", FALSE, FALSE, TRUE,
                                FALSE, Num(5000), Num(1000), "")]
    [] name = "comprehensive" ->
         [keys |-> AllOptionKeys,
          val  |-> OptionValues(TRUE, TRUE, TRUE, "true", TRUE, TRUE, TRUE,
                                TRUE, Num(10000), Num(2000), "")]

\* The object with no own keys: what spreading undefined yields.
EmptyObject ==
  [keys |-> {},
   val  |-> OptionValues(FALSE, FALSE, FALSE, "false", FALSE, FALSE, FALSE, FALSE,
                         Num(0), Num(0), "")]

\* { ...base, ...over }: every key of over wins.
Spread(base, over) ==
  [keys |-> base.keys \cup over.keys,
   val  |-> [k \in DOMAIN base.val |->
               IF k \in over.keys THEN over.val[k] ELSE base.val[k]]]

\* mergeOptions(options): undefined/null gives the defaults, an object is
\* spread over them.
mergeOptions(arg) ==
  IF arg.kind = "undefined" THEN DEFAULT_FINGERPRINT_OPTIONS
  ELSE Spread(DEFAULT_FINGERPRINT_OPTIONS, arg.obj)

\* getPresetOptions(preset): a copy of the table entry; a name that is not
\* in the table reads undefined, and spreading undefined gives {}.
getPresetOptions(name) ==
  IF name \in PresetNames THEN FINGERPRINT_PRESETS(name) ELSE EmptyObject

\* typeof options === 'string' ? getPresetOptions(options) : mergeOptions(options)
ResolveOptions(arg) ==
  IF arg.kind = "string" THEN getPresetOptions(arg.name) ELSE mergeOptions(arg)

\* Truthiness of resolvedOptions.<key of s>.
Enabled(o, s) ==
  LET k == OptionKey(s) IN
  /\ k \in o.keys
  /\ IF k = "fonts" THEN o.val[k] # "false" ELSE o.val[k]

\* GlobalBudget with || in place of ??: 0 and NaN fall back to 5000 too.
GlobalBudgetOr(o) ==
  IF "timeout" \in o.keys /\ ~o.val.timeout.nan /\ o.val.timeout.n # 0
  THEN o.val.timeout ELSE Num(5000)

\* resolvedOptions.timeout, without ?? 5000: a missing key is undefined,
\* which setTimeout takes as 0.
GlobalBudgetUndefaulted(o) == o.val.timeout

\* resolvedOptions.timeout ?? 5000
GlobalBudget(o) == IF "timeout" \in o.keys THEN o.val.timeout ELSE Num(5000)

\* options?.timeout ?? 1000 in the collectors (fonts: ?? 2000).
MethodBudget(o, s) ==
  IF "methodTimeout" \in o.keys THEN o.val.methodTimeout
  ELSE IF s = "fonts" THEN Num(2000) ELSE Num(1000)


\* ------------------------------------------------------------ environment
\* What the browser API behind a signal does in one call:
\*   ok    - it yields data and the collector returns a hash
\*   null  - it is absent (not a browser, no such API): the collector
\*           returns null at once
\*   throw - it throws or rejects; the collector's catch turns that to null
\*   hang  - its promise never settles
\*   none  - the signal is not enabled, the collector is not called
Kinds(s) ==
  CASE s \in {"canvas", "webgl", "fonts"} -> {"ok", "null", "throw"}
    [] s = "audio" -> {"ok", "null", "throw", "hang"}
    [] s = "mediaDevices" -> {"ok", "null", "throw", "hang"}
    [] s = "networkInfo" -> {"ok", "null"}
    [] s = "timezone" -> {"ok", "throw"}
    [] s = "incognito" -> {"ok", "null", "throw", "hang"}

\* The hash a collector returns when its API yields data.
HashOf(s) ==
  CASE s = "canvas" -> "h_canvas"
    [] s = "webgl" -> "h_webgl"
    [] s = "audio" -> "h_audio"
    [] s = "fonts" -> "h_fonts"
    [] s = "mediaDevices" -> "h_mediaDevices"
    [] s = "networkInfo" -> "h_networkInfo"
    [] s = "timezone" -> "h_timezone"
    [] s = "incognito" -> "h_incognito"

\* this.get(): the synchronous uuid of the device profile.
basicHash == "u_basic"

\* utf8Encode(str), a string being the sequence of its characters (a text
\* without line breaks is taken as one): every "\r\n" becomes "\n"; the
\* characters of the model are below 128 and stay as they are.
RECURSIVE utf8Encode(_)
utf8Encode(str) ==
  IF Len(str) < 2 THEN str
  ELSE IF str[1] = "\r" /\ str[2] = "\n"
       THEN <<"\n">> \o utf8Encode(SubSeq(str, 3, Len(str)))
       ELSE <<str[1]>> \o utf8Encode(Tail(str))

\* hashMD5(str): an injective digest of the encoded string.
hashMD5(str) == <<"md5", utf8Encode(str)>>

\* combineHashes(hashes): drop null and '' and join with ':' (the join of
\* separator-free strings is kept as the sequence of its parts).
combineHashes(hs) == SelectSeq(hs, LAMBDA h : h # Null /\ h # "")

\* The 8-4-4-4-12 encoding of the final digest.
EncodeUuid(finalHash) == <<"uuid", finalHash>>

\* calculateConfidence with its two counts taken in the other order.
calculateConfidenceSwapped(total, successful) ==
  IF total = 0 THEN [num |-> 0, den |-> 1]
  ELSE [num |-> total, den |-> successful]

\* calculateConfidence(total, successful) without weights, as the fraction
\* num/den.
calculateConfidence(total, successful) ==
  IF total = 0 THEN [num |-> 0, den |-> 1]
  ELSE [num |-> successful, den |-> total]

\* setTimeout's delay: NaN and negative delays run as soon as possible.
ClampDelay(ms) == IF ms.nan \/ ms.n < 0 THEN 0 ELSE ms.n

\* ----------------------------------------------------------------- hashInt
\* A JavaScript number that is an integer, as high * 65536 + low with low
\* in 0..65535; a signed 32-bit integer has hi in -32768..32767.
Int32(n) == [hi |-> n \div 65536, lo |-> n % 65536]

\* ToInt32, what | 0 and the operand conversion of << do.
ToInt32(x) ==
  LET high == x.hi % 65536
  IN [hi |-> IF high >= 32768 THEN high - 65536 ELSE high, lo |-> x.lo]

\* x << 5
ShiftLeft5(x) ==
  LET w == ToInt32(x)
      low == w.lo * 32
  IN ToInt32([hi |-> w.hi * 32 + low \div 65536, lo |-> low % 65536])

\* x - y
Minus(x, y) ==
  LET low == x.lo - y.lo
  IN [hi |-> x.hi - y.hi + low \div 65536, lo |-> low % 65536]

\* x + chr, chr a char code
PlusCode(x, chr) ==
  LET low == x.lo + chr
  IN [hi |-> x.hi + low \div 65536, lo |-> low % 65536]

\* hashInt without the conversion hash |= 0.
RECURSIVE hashIntUnconverted(_)
hashIntUnconverted(str) ==
  IF str = <<>> THEN Int32(0)
  ELSE LET hash == hashIntUnconverted(SubSeq(str, 1, Len(str) - 1))
           chr == str[Len(str)]
       IN PlusCode(Minus(ShiftLeft5(hash), hash), chr)

\* hashInt(str): for each character, hash = (hash << 5) - hash + chr, then
\* hash |= 0.
RECURSIVE hashInt(_)
hashInt(str) ==
  IF str = <<>> THEN Int32(0)
  ELSE LET hash == hashInt(SubSeq(str, 1, Len(str) - 1))
           chr == str[Len(str)]
       IN ToInt32(PlusCode(Minus(ShiftLeft5(hash), hash), chr))

\* ------------------------------------------------------------ uuid format
HexDigits == <<"0", "1", "2", "3", "4", "5", "6", "7",
               "8", "9", "a", "b", "c", "d", "e", "f">>

HexSet == {HexDigits[k] : k \in 1..Len(HexDigits)}

\* A 32-bit word of the MD5 state, as its two 16-bit halves.
Word(hi, lo) == [hi |-> hi, lo |-> lo]

\* (value >>> (count * 8)) & 255
ByteOf(value, count) ==
  IF count < 2 THEN (value.lo \div (256 ^ count)) % 256
  ELSE (value.hi \div (256 ^ (count - 2))) % 256

\* byte.toString(16)
ToString16(byte) ==
  IF byte < 16 THEN <<HexDigits[byte + 1]>>
  ELSE <<HexDigits[(byte \div 16) + 1], HexDigits[(byte % 16) + 1]>>

\* wordToHex(value): the four bytes, lowest first, two hex characters each
\* (the last two characters of '0' + byte.toString(16)).
wordToHex(value) ==
  LET Two(count) == LET temp == <<"0">> \o ToString16(ByteOf(value, count))
                    IN SubSeq(temp, Len(temp) - 1, Len(temp))
  IN Two(0) \o Two(1) \o Two(2) \o Two(3)

\* The string hashMD5 returns for the final state a, b, c, d.
DigestOf(st) == wordToHex(st.a) \o wordToHex(st.b) \o wordToHex(st.c) \o wordToHex(st.d)

\* str.slice(from, to) and str.slice(from)
slice(str, from, to) == SubSeq(str, from + 1, to)

sliceFrom(str, from) == SubSeq(str, from + 1, Len(str))

\* FormatUuid without the version and variant characters: the digest cut
\* into consecutive groups.
FormatUuidPlain(tmpUuid) ==
  slice(tmpUuid, 0, 8) \o <<"-">> \o slice(tmpUuid, 8, 12) \o <<"-">>
  \o slice(tmpUuid, 12, 16) \o <<"-">>
  \o slice(tmpUuid, 16, 20) \o <<"-">> \o sliceFrom(tmpUuid, 20)

\* The five groups get() and getDetailedAsync() build from the digest,
\* joined with '-'.
FormatUuid(tmpUuid) ==
  slice(tmpUuid, 0, 8) \o <<"-">> \o slice(tmpUuid, 8, 12) \o <<"-">>
  \o (<<"4">> \o slice(tmpUuid, 12, 15)) \o <<"-">>
  \o (<<"b">> \o slice(tmpUuid, 15, 18)) \o <<"-">> \o sliceFrom(tmpUuid, 20)

\* ------------------------------------------------------------- classifier
\* A user-agent string is taken as the set of the marker substrings it
\* holds (lower-cased); every pattern of the classifier is a test for one
\* of them.
Markers ==
  {"windows nt 10.0", "windows phone 8.", "linux", "cros", "wii",
   "os x 10_15", "os x", "(ipad; cpu os 17_2", "ipad",
   "(iphone; cpu iphone os 17_2", "iphone", "ipod", "macintosh", "android",
   "blackberry", "samsung", "bada/2.0", "curl/7.1.0", "smart-tv", "mobile",
   "tablet", "kftt", "captivenetwork", "chrome/120.0", "safari/604.1",
   "^customos/1.0"}

\* A string that holds a marker holds the markers that are substrings of it.
Contained(m) ==
  CASE m = "os x 10_15" -> {"os x"}
    [] m = "(ipad; cpu os 17_2" -> {"ipad"}
    [] m = "(iphone; cpu iphone os 17_2" -> {"iphone"}
    [] m = "googlebot" -> {"bot"}
    [] m = "^mybot/1.0" -> {"bot"}
    [] OTHER -> {}

SourceOf(ms) == ms \cup UNION {Contained(m) : m \in ms}

\* The strings built from at most n markers.
RECURSIVE MarkerSets(_)
MarkerSets(n) ==
  IF n = 0 THEN {{}}
  ELSE LET P == MarkerSets(n - 1) IN P \cup {p \cup {m} : p \in P, m \in Markers}

\* The tokens of the browser rules, of the bot test and of the
\* compatibility-mode test. A token that starts with ^ stands for a string
\* that begins with it (and so does not begin with Mozilla).
MsieTokens == {"msie 7.0", "msie 9.0"}

TridentTokens ==
  {"trident/7.0", "trident/6.0", "trident/5.0", "trident/4.0", "trident/8.0"}

StartTokens == {"^customos/1.0", "^mybot/1.0"}

BrowserMarkers ==
  {"edge", "phantomjs", "konqueror", "amaya", "epiphany", "seamonkey",
   "flock", "omniweb", "opera", "chromium", "chrome/120.0", "safari/604.1",
   "msapphost", "playstation 3", "playstation portable", "firefox",
   "ucbrowser", "googlebot", "bot", "silk"}
  \cup MsieTokens \cup TridentTokens \cup StartTokens

\* A string has one beginning, and the strings taken here carry at most one
\* MSIE token and one Trident token.
OneOfEach(ms) ==
  \A family \in {MsieTokens, TridentTokens, StartTokens} :
    Cardinality(ms \cap family) <= 1

\* The strings built from at most n of the browser markers.
RECURSIVE BrowserSets(_)
BrowserSets(n) ==
  IF n = 0 THEN {{}}
  ELSE LET P == BrowserSets(n - 1)
       IN P \cup {q \in {p \cup {m} : p \in P, m \in BrowserMarkers} : OneOfEach(q)}

\* AgentInfo, the fields the rules read and write, and the device
\* properties get() digests. isBot is false, true or the bot token that
\* matched, written here as the strings "false", "true" and the token.
DEFAULT_AGENT ==
  [isAuthoritative |-> TRUE, isMobile |-> FALSE, isTablet |-> FALSE,
   isiPad |-> FALSE, isiPod |-> FALSE, isiPhone |-> FALSE, isAndroid |-> FALSE,
   isBlackberry |-> FALSE, isDesktop |-> FALSE, isWindows |-> FALSE,
   isLinux |-> FALSE, isMac |-> FALSE, isChromeOS |-> FALSE, isBada |-> FALSE,
   isSamsung |-> FALSE, isCurl |-> FALSE, isAndroidTablet |-> FALSE,
   isKindleFire |-> FALSE, isCaptive |-> FALSE, isSmartTV |-> FALSE,
   isWindowsPhone |-> FALSE, isTouchScreen |-> FALSE,
   isChrome |-> FALSE, isSafari |-> FALSE,
   isOpera |-> FALSE, isIE |-> FALSE, isEdge |-> FALSE,
   isIECompatibilityMode |-> FALSE, isFirefox |-> FALSE,
   isKonqueror |-> FALSE, isOmniWeb |-> FALSE, isSeaMonkey |-> FALSE,
   isFlock |-> FALSE, isAmaya |-> FALSE, isPhantomJS |-> FALSE,
   isEpiphany |-> FALSE, isWinJs |-> FALSE, isUC |-> FALSE,
   isSilk |-> FALSE, silkAccelerated |-> FALSE, isBot |-> "false",
   colorDepth |-> "-1", pixelDepth |-> "-1", resolution |-> <<>>,
   cpuCores |-> "-1", language |-> "unknown", browser |-> "unknown",
   version |-> "unknown", os |-> "unknown", platform |-> "unknown",
   source |-> {}]

\* The browser patterns: the tokens each one finds (the Chrome and Safari
\* tokens carry their version as well).
browserPatterns(name) ==
  CASE name = "Edge" -> {"edge"}
    [] name = "PhantomJS" -> {"phantomjs"}
    [] name = "Konqueror" -> {"konqueror"}
    [] name = "Amaya" -> {"amaya"}
    [] name = "Epiphany" -> {"epiphany"}
    [] name = "SeaMonkey" -> {"seamonkey"}
    [] name = "Flock" -> {"flock"}
    [] name = "OmniWeb" -> {"omniweb"}
    [] name = "Opera" -> {"opera", "opr"}
    [] name = "Chromium" -> {"chromium", "crios"}
    [] name = "Chrome" -> {"chrome/120.0"}
    [] name = "Safari" -> {"safari/604.1"}
    [] name = "WinJs" -> {"msapphost"}
    [] name = "IE" -> MsieTokens \cup TridentTokens
    [] name = "PS3" -> {"playstation 3"}
    [] name = "PSP" -> {"playstation portable"}
    [] name = "Firefox" -> {"firefox"}
    [] name = "UC" -> {"ucbrowser"}

\* pattern.test(source)
Test(name, source) == browserPatterns(name) \cap source # {}

\* RegExp.$1 of the name/version rule: the name the string begins with.
StartName(source) ==
  IF "^customos/1.0" \in source THEN "CustomOS" ELSE "MyBot"

\* getBrowser with every rule evaluated: the first match names the
\* browser and every match sets its flag.
getBrowserEveryRule(a, source) ==
  LET flagged ==
        [f \in DOMAIN a |->
           IF \/ f = "isEdge" /\ Test("Edge", source)
              \/ f = "isPhantomJS" /\ Test("PhantomJS", source)
              \/ f = "isKonqueror" /\ Test("Konqueror", source)
              \/ f = "isAmaya" /\ Test("Amaya", source)
              \/ f = "isEpiphany" /\ Test("Epiphany", source)
              \/ f = "isSeaMonkey" /\ Test("SeaMonkey", source)
              \/ f = "isFlock" /\ Test("Flock", source)
              \/ f = "isOmniWeb" /\ Test("OmniWeb", source)
              \/ f = "isOpera" /\ Test("Opera", source)
              \/ f = "isChrome" /\ (Test("Chromium", source) \/ Test("Chrome", source))
              \/ f = "isSafari" /\ Test("Safari", source)
              \/ f = "isWinJs" /\ Test("WinJs", source)
              \/ f = "isIE" /\ Test("IE", source)
              \/ f = "isFirefox" /\ Test("Firefox", source)
              \/ f = "isUC" /\ Test("UC", source)
           THEN TRUE ELSE a[f]]
  IN IF Test("Edge", source) THEN [flagged EXCEPT !.browser = "Edge"]
     ELSE IF Test("PhantomJS", source) THEN [flagged EXCEPT !.browser = "PhantomJS"]
     ELSE IF Test("Konqueror", source) THEN [flagged EXCEPT !.browser = "Konqueror"]
     ELSE IF Test("Amaya", source) THEN [flagged EXCEPT !.browser = "Amaya"]
     ELSE IF Test("Epiphany", source) THEN [flagged EXCEPT !.browser = "Epiphany"]
     ELSE IF Test("SeaMonkey", source) THEN [flagged EXCEPT !.browser = "SeaMonkey"]
     ELSE IF Test("Flock", source) THEN [flagged EXCEPT !.browser = "Flock"]
     ELSE IF Test("OmniWeb", source) THEN [flagged EXCEPT !.browser = "OmniWeb"]
     ELSE IF Test("Opera", source) THEN [flagged EXCEPT !.browser = "Opera"]
     ELSE IF Test("Chromium", source) THEN [flagged EXCEPT !.browser = "Chromium"]
     ELSE IF Test("Chrome", source) THEN [flagged EXCEPT !.browser = "Chrome"]
     ELSE IF Test("Safari", source) THEN [flagged EXCEPT !.browser = "Safari"]
     ELSE IF Test("WinJs", source) THEN [flagged EXCEPT !.browser = "WinJs"]
     ELSE IF Test("IE", source) THEN [flagged EXCEPT !.browser = "IE"]
     ELSE IF Test("PS3", source) THEN [flagged EXCEPT !.browser = "ps3"]
     ELSE IF Test("PSP", source) THEN [flagged EXCEPT !.browser = "psp"]
     ELSE IF Test("Firefox", source) THEN [flagged EXCEPT !.browser = "Firefox"]
     ELSE IF Test("UC", source) THEN [flagged EXCEPT !.browser = "UCBrowser"]
     ELSE IF source \cap StartTokens # {}
          THEN [flagged EXCEPT !.isAuthoritative = FALSE, !.browser = StartName(source)]
     ELSE [flagged EXCEPT !.browser = "unknown"]

getBrowser(a, source) ==
  IF Test("Edge", source) THEN [a EXCEPT !.isEdge = TRUE, !.browser = "Edge"]
  ELSE IF Test("PhantomJS", source)
       THEN [a EXCEPT !.isPhantomJS = TRUE, !.browser = "PhantomJS"]
  ELSE IF Test("Konqueror", source)
       THEN [a EXCEPT !.isKonqueror = TRUE, !.browser = "Konqueror"]
  ELSE IF Test("Amaya", source) THEN [a EXCEPT !.isAmaya = TRUE, !.browser = "Amaya"]
  ELSE IF Test("Epiphany", source)
       THEN [a EXCEPT !.isEpiphany = TRUE, !.browser = "Epiphany"]
  ELSE IF Test("SeaMonkey", source)
       THEN [a EXCEPT !.isSeaMonkey = TRUE, !.browser = "SeaMonkey"]
  ELSE IF Test("Flock", source) THEN [a EXCEPT !.isFlock = TRUE, !.browser = "Flock"]
  ELSE IF Test("OmniWeb", source)
       THEN [a EXCEPT !.isOmniWeb = TRUE, !.browser = "OmniWeb"]
  ELSE IF Test("Opera", source) THEN [a EXCEPT !.isOpera = TRUE, !.browser = "Opera"]
  ELSE IF Test("Chromium", source)
       THEN [a EXCEPT !.isChrome = TRUE, !.browser = "Chromium"]
  ELSE IF Test("Chrome", source) THEN [a EXCEPT !.isChrome = TRUE, !.browser = "Chrome"]
  ELSE IF Test("Safari", source) THEN [a EXCEPT !.isSafari = TRUE, !.browser = "Safari"]
  ELSE IF Test("WinJs", source) THEN [a EXCEPT !.isWinJs = TRUE, !.browser = "WinJs"]
  ELSE IF Test("IE", source) THEN [a EXCEPT !.isIE = TRUE, !.browser = "IE"]
  ELSE IF Test("PS3", source) THEN [a EXCEPT !.browser = "ps3"]
  ELSE IF Test("PSP", source) THEN [a EXCEPT !.browser = "psp"]
  ELSE IF Test("Firefox", source)
       THEN [a EXCEPT !.isFirefox = TRUE, !.browser = "Firefox"]
  ELSE IF Test("UC", source) THEN [a EXCEPT !.isUC = TRUE, !.browser = "UCBrowser"]
  ELSE IF source \cap StartTokens # {}
       THEN [a EXCEPT !.isAuthoritative = FALSE, !.browser = StartName(source)]
  ELSE [a EXCEPT !.browser = "unknown"]

\* getBrowserVersion(source): the version pattern of the browser (Safari's
\* is /version\/.../, which no marker holds; IE's finds the MSIE token; the
\* PlayStation ones capture the last word of the string, "$1" here), then
\* the pattern <browser>[/ ]<version> for any browser but 'unknown'. The
\* other browser tokens have no version after them.
getBrowserVersion(a, source) ==
  IF a.browser = "Chrome" /\ "chrome/120.0" \in source THEN [a EXCEPT !.version = "120.0"]
  ELSE IF a.browser = "Safari" /\ "safari/604.1" \in source
       THEN [a EXCEPT !.version = "604.1"]
  ELSE IF a.browser = "IE" /\ "msie 7.0" \in source THEN [a EXCEPT !.version = "7.0"]
  ELSE IF a.browser = "IE" /\ "msie 9.0" \in source THEN [a EXCEPT !.version = "9.0"]
  ELSE IF a.browser \in {"ps3", "psp"} THEN [a EXCEPT !.version = "$1"]
  ELSE IF ~a.isAuthoritative /\ source \cap StartTokens # {}
       THEN [a EXCEPT !.version = "1.0"]
  ELSE [a EXCEPT !.version = "unknown"]

\* getOS(source): the first rule that matches names the OS and sets its
\* flag.
getOS(a, source) ==
  IF "windows nt 10.0" \in source THEN [a EXCEPT !.isWindows = TRUE, !.os = "Windows 10.0"]
  ELSE IF "windows phone 8." \in source THEN [a EXCEPT !.os = "Windows Phone 8"]
  ELSE IF "linux" \in source THEN [a EXCEPT !.isLinux = TRUE, !.os = "Linux"]
  ELSE IF "cros" \in source THEN [a EXCEPT !.isChromeOS = TRUE, !.os = "Chrome OS"]
  ELSE IF "wii" \in source THEN [a EXCEPT !.os = "Wii"]
  ELSE IF "os x 10_15" \in source THEN [a EXCEPT !.isMac = TRUE, !.os = "macOS Catalina"]
  ELSE IF "(ipad; cpu os 17_2" \in source THEN [a EXCEPT !.isiPad = TRUE, !.os = "iOS"]
  ELSE IF "(iphone; cpu iphone os 17_2" \in source
       THEN [a EXCEPT !.isiPhone = TRUE, !.os = "iOS"]
  ELSE IF "os x" \in source THEN [a EXCEPT !.isMac = TRUE, !.os = "Mac OS"]
  ELSE IF "bada/2.0" \in source THEN [a EXCEPT !.isBada = TRUE, !.os = "Bada"]
  ELSE IF "curl/7.1.0" \in source THEN [a EXCEPT !.isCurl = TRUE, !.os = "Curl"]
  ELSE [a EXCEPT !.os = "unknown"]

\* getPlatform(source)
getPlatform(a, source) ==
  IF "windows nt 10.0" \in source THEN [a EXCEPT !.platform = "Microsoft Windows"]
  ELSE IF "windows phone 8." \in source
       THEN [a EXCEPT !.isWindowsPhone = TRUE, !.platform = "Microsoft Windows Phone"]
  ELSE IF "macintosh" \in source THEN [a EXCEPT !.platform = "Apple Mac"]
  ELSE IF "curl/7.1.0" \in source THEN [a EXCEPT !.platform = "Curl"]
  ELSE IF "android" \in source THEN [a EXCEPT !.isAndroid = TRUE, !.platform = "Android"]
  ELSE IF "blackberry" \in source
       THEN [a EXCEPT !.isBlackberry = TRUE, !.platform = "Blackberry"]
  ELSE IF "linux" \in source THEN [a EXCEPT !.platform = "Linux"]
  ELSE IF "wii" \in source THEN [a EXCEPT !.platform = "Wii"]
  ELSE IF "ipad" \in source THEN [a EXCEPT !.isiPad = TRUE, !.platform = "iPad"]
  ELSE IF "ipod" \in source THEN [a EXCEPT !.isiPod = TRUE, !.platform = "iPod"]
  ELSE IF "iphone" \in source THEN [a EXCEPT !.isiPhone = TRUE, !.platform = "iPhone"]
  ELSE IF "samsung" \in source THEN [a EXCEPT !.isSamsung = TRUE, !.platform = "Samsung"]
  ELSE [a EXCEPT !.platform = "unknown"]

\* The tokens of IS_BOT_REGEXP that the lower-cased string can hold
\* ('Embedly', with its capital, cannot be found in it); "googlebot" is
\* among the markers.
BOTS ==
  {"+https://developers.google.com/+/web/snippet/", "googlebot", "baiduspider", "gurujibot", "yandexbot", "slurp", "msnbot",
   "bingbot", "facebookexternalhit", "linkedinbot", "twitterbot", "slackbot",
   "telegrambot", "applebot", "pingdom", "tumblr ", "spbot"}

\* testBot with the loose test applied whatever the parse was.
testBotAlwaysLoose(a) ==
  IF a.source \cap BOTS # {}
  THEN [a EXCEPT !.isBot = CHOOSE t \in a.source \cap BOTS : TRUE]
  ELSE [a EXCEPT !.isBot = IF "bot" \in a.source THEN "true" ELSE "false"]

\* testBot()
testBot(a) ==
  IF a.source \cap BOTS # {}
  THEN [a EXCEPT !.isBot = CHOOSE t \in a.source \cap BOTS : TRUE]
  ELSE IF ~a.isAuthoritative
       THEN [a EXCEPT !.isBot = IF "bot" \in a.source THEN "true" ELSE "false"]
  ELSE a

\* parseFloat of a version string.
parseFloat(str) ==
  CASE str = "7.0" -> Num(7)
    [] str = "9.0" -> Num(9)
    [] str = "1.0" -> Num(1)
    [] str = "120.0" -> Num(120)
    [] str = "604.1" -> Num(604)
    [] OTHER -> NaN

\* parseInt of the digit /Trident\/(\d)\.0/i captures.
TridentVersion(token) ==
  CASE token = "trident/7.0" -> 7
    [] token = "trident/6.0" -> 6
    [] token = "trident/5.0" -> 5
    [] token = "trident/4.0" -> 4
    [] token = "trident/8.0" -> 8

\* testCompatibilityMode with the version left as parsed.
testCompatibilityModeFlagOnly(a) ==
  IF a.isIE /\ a.source \cap TridentTokens # {}
  THEN LET tridentVersion ==
             TridentVersion(CHOOSE t \in a.source \cap TridentTokens : TRUE)
           version == parseFloat(a.version)
       IN IF version = Num(7) /\ tridentVersion \in {7, 6, 5, 4}
          THEN [a EXCEPT !.isIECompatibilityMode = TRUE]
          ELSE a
  ELSE a

\* testCompatibilityMode()
testCompatibilityMode(a) ==
  IF a.isIE /\ a.source \cap TridentTokens # {}
  THEN LET tridentVersion ==
             TridentVersion(CHOOSE t \in a.source \cap TridentTokens : TRUE)
           version == parseFloat(a.version)
       IN IF version = Num(7) /\ tridentVersion = 7
          THEN [a EXCEPT !.isIECompatibilityMode = TRUE, !.version = "11.0"]
          ELSE IF version = Num(7) /\ tridentVersion = 6
          THEN [a EXCEPT !.isIECompatibilityMode = TRUE, !.version = "10.0"]
          ELSE IF version = Num(7) /\ tridentVersion = 5
          THEN [a EXCEPT !.isIECompatibilityMode = TRUE, !.version = "9.0"]
          ELSE IF version = Num(7) /\ tridentVersion = 4
          THEN [a EXCEPT !.isIECompatibilityMode = TRUE, !.version = "8.0"]
          ELSE a
  ELSE a

\* testSilk()
testSilk(a) ==
  LET b == IF "silk" \in a.source THEN [a EXCEPT !.isSilk = TRUE] ELSE a
  IN IF "silk-accelerated=true" \in a.source
     THEN [b EXCEPT !.silkAccelerated = TRUE] ELSE b

\* testSmartTV(): isSmartTV[1] || true, the pattern having no group.
testSmartTV(a) ==
  IF "smart-tv" \in a.source THEN [a EXCEPT !.isSmartTV = TRUE] ELSE a

\* testMobile without its Smart-TV branch.
testMobileNoTV(a) ==
  IF \/ a.isAndroid \/ a.isSamsung \/ a.isiPhone \/ a.isiPod \/ a.isBada
     \/ a.isBlackberry \/ a.isWindowsPhone
  THEN [a EXCEPT !.isMobile = TRUE, !.isDesktop = FALSE]
  ELSE IF a.isiPad THEN [a EXCEPT !.isMobile = FALSE, !.isDesktop = FALSE]
  ELSE IF a.isWindows \/ a.isLinux \/ a.isMac \/ a.isChromeOS
       THEN [a EXCEPT !.isDesktop = TRUE]
  ELSE IF "mobile" \in a.source THEN [a EXCEPT !.isMobile = TRUE, !.isDesktop = FALSE]
  ELSE a

\* testMobile with the desktop-OS branch ahead of the mobile-OS branch.
testMobileDesktopFirst(a) ==
  IF a.isSmartTV THEN [a EXCEPT !.isMobile = FALSE, !.isDesktop = FALSE]
  ELSE IF a.isWindows \/ a.isLinux \/ a.isMac \/ a.isChromeOS
       THEN [a EXCEPT !.isDesktop = TRUE]
  ELSE IF \/ a.isAndroid \/ a.isSamsung \/ a.isiPhone \/ a.isiPod \/ a.isBada
          \/ a.isBlackberry \/ a.isWindowsPhone
       THEN [a EXCEPT !.isMobile = TRUE, !.isDesktop = FALSE]
  ELSE IF a.isiPad THEN [a EXCEPT !.isMobile = FALSE, !.isDesktop = FALSE]
  ELSE IF "mobile" \in a.source THEN [a EXCEPT !.isMobile = TRUE, !.isDesktop = FALSE]
  ELSE a

\* testMobile()
testMobile(a) ==
  IF a.isSmartTV THEN [a EXCEPT !.isMobile = FALSE, !.isDesktop = FALSE]
  ELSE IF \/ a.isAndroid \/ a.isSamsung \/ a.isiPhone \/ a.isiPod \/ a.isBada
          \/ a.isBlackberry \/ a.isWindowsPhone
       THEN [a EXCEPT !.isMobile = TRUE, !.isDesktop = FALSE]
  ELSE IF a.isiPad THEN [a EXCEPT !.isMobile = FALSE, !.isDesktop = FALSE]
  ELSE IF a.isWindows \/ a.isLinux \/ a.isMac \/ a.isChromeOS
       THEN [a EXCEPT !.isDesktop = TRUE]
  ELSE IF "mobile" \in a.source THEN [a EXCEPT !.isMobile = TRUE, !.isDesktop = FALSE]
  ELSE a

\* testAndroidTablet without the line that clears isMobile.
testAndroidTabletKeepMobile(a) ==
  IF a.isAndroid /\ "mobile" \notin a.source
  THEN [a EXCEPT !.isAndroidTablet = TRUE]
  ELSE a

\* testAndroidTablet()
testAndroidTablet(a) ==
  IF a.isAndroid /\ "mobile" \notin a.source
  THEN [a EXCEPT !.isAndroidTablet = TRUE, !.isMobile = FALSE]
  ELSE a

\* testTablet()
testTablet(a) ==
  IF a.isiPad \/ a.isAndroidTablet \/ a.isKindleFire \/ "tablet" \in a.source
  THEN [a EXCEPT !.isTablet = TRUE]
  ELSE a

\* testKindleFire()
testKindleFire(a) ==
  IF "kftt" \in a.source THEN [a EXCEPT !.isKindleFire = TRUE] ELSE a

\* testCaptiveNetwork()
testCaptiveNetwork(a) ==
  IF "captivenetwork" \in a.source
  THEN [a EXCEPT !.isCaptive = TRUE, !.isMac = TRUE, !.platform = "Apple Mac"]
  ELSE a

\* The environment parse() reads: navigator.userAgent and the device
\* properties.
Env(ua, language, resolution, touch) ==
  [ua |-> ua, language |-> language, resolution |-> resolution,
   colorDepth |-> "24", pixelDepth |-> "24", cpuCores |-> "8", touch |-> touch]

\* The argument of parse: none, the empty string, or a string that is not
\* empty.
NoSource == [given |-> FALSE, empty |-> TRUE, ua |-> {}]

EmptySource == [given |-> TRUE, empty |-> TRUE, ua |-> {}]

GivenSource(ua) == [given |-> TRUE, empty |-> FALSE, ua |-> ua]

\* parse(source): a fresh agent, source || getUserAgent(), the OS,
\* platform, browser and version rules, the tests in their order, the
\* device properties.
parse(source, env) ==
  LET userAgent == IF source.given /\ ~source.empty THEN source.ua ELSE env.ua
      a0 == [DEFAULT_AGENT EXCEPT !.source = userAgent]
      a1 == getBrowserVersion(
              getBrowser(getPlatform(getOS(a0, userAgent), userAgent), userAgent),
              userAgent)
      a2 == testTablet(testAndroidTablet(testMobile(testSmartTV(testBot(a1)))))
      a3 == testCaptiveNetwork(testKindleFire(testSilk(testCompatibilityMode(a2))))
  IN [a3 EXCEPT !.isTouchScreen = env.touch,
                !.language = env.language,
                !.colorDepth = env.colorDepth,
                !.pixelDepth = env.pixelDepth,
                !.resolution = env.resolution,
                !.cpuCores = env.cpuCores]

\* ------------------------------------------------------------------ get()
\* The keys of DEFAULT_OPTIONS that name a field of the agent above, in
\* their order.
OptionFields ==
  <<"version", "language", "platform", "os", "pixelDepth", "colorDepth",
    "resolution", "isAuthoritative", "isKindleFire", "isDesktop", "isMobile",
    "isTablet", "isWindows", "isLinux", "isChromeOS", "isMac", "isiPad",
    "isiPhone", "isiPod", "isAndroid", "isSamsung", "isSmartTV", "isBlackberry",
    "isTouchScreen", "isSafari", "isChrome", "cpuCores">>

OptionFieldSet == {OptionFields[k] : k \in 1..Len(OptionFields)}

\* DEFAULT_OPTIONS: version, language, resolution, the browser flags and
\* cpuCores are off, the other keys are on.
DEFAULT_OPTIONS ==
  [keys |-> OptionFields,
   val  |-> [k \in OptionFieldSet |->
               k \notin {"version", "language", "resolution", "isSafari",
                         "isChrome", "cpuCores"}]]

\* constructor: this.options = { ...DEFAULT_OPTIONS, ...options }, options
\* being a function from some of the keys to booleans.
DeviceOptions(options) ==
  [keys |-> DEFAULT_OPTIONS.keys,
   val  |-> [k \in OptionFieldSet |->
               IF k \in DOMAIN options THEN options[k] ELSE DEFAULT_OPTIONS.val[k]]]

\* parts.join(separator), each part a string.
RECURSIVE join(_, _)
join(parts, separator) ==
  IF parts = <<>> THEN <<>>
  ELSE IF Len(parts) = 1 THEN parts[1]
  ELSE parts[1] \o <<separator>> \o join(Tail(parts), separator)

\* The fields of the agent that hold strings; the others hold booleans.
StringFields ==
  {"version", "language", "platform", "os", "pixelDepth", "colorDepth", "cpuCores"}

\* What Array.prototype.join makes of the field `key` of du: a string or a
\* number as it is, a boolean as true or false, the resolution array as its
\* elements joined with ','.
Str(du, key) ==
  IF key = "resolution" THEN join([k \in 1..Len(du[key]) |-> <<du[key][k]>>], ",")
  ELSE IF key \in StringFields THEN <<du[key]>>
  ELSE IF du[key] THEN <<"true">> ELSE <<"false">>

\* get(customData) on an instance with this.options = options: the values
\* of du under every own key of the options, customData if truthy, the
\* resolution of a mobile device when the option resolution is off; joined
\* with ':' (kept as the sequence of the parts), digested and encoded.
get(options, customData, env) ==
  LET du == parse(NoSource, env)
      dataArray ==
        [k \in 1..Len(options.keys) |-> Str(du, options.keys[k])]
        \o (IF customData # <<>> THEN <<customData>> ELSE <<>>)
        \o (IF ~options.val["resolution"] /\ du.isMobile
            THEN <<Str(du, "resolution")>> ELSE <<>>)
  IN EncodeUuid(hashMD5(join(dataArray, ":")))

\* ------------------------------------------------------------------ state
VARIABLES
  scenario,      \* the input sets of this run: [calls, args, kinds]
  now,           \* virtual time, ms
  timers,        \* armed timers, in firing order
  micro,         \* the microtask queue
  pc,            \* per call: where getDetailedAsync stands
  opts,          \* per call: resolvedOptions
  kind,          \* per call, per signal: what the API does in this call
  fbOk,          \* per call: the AudioContext fallback yields a hash
  phase,         \* per call, per signal: the signal's task
  race,          \* per call: the withTimeout(Promise.all(tasks)) race
  compRef,       \* per call: the object `components` refers to
  heap,          \* the components objects
  hashes,        \* per call: the local array `hashes`
  successCount,  \* per call
  totalCount,    \* per call
  report,        \* per call: the value the promise resolved with
  startedAt,     \* per call, per signal: when the collector was called
  sync,          \* the caller's synchronous code that made a call still runs
  input,         \* the arguments of a direct call of parse, get or option resolution
  output,        \* what that call returned
  applied,       \* which call was made, "none" before it
  objects,       \* the AgentInfo objects created so far
  self,          \* the object this.agent refers to
  history        \* the calls made on the instance, in order

vars == <<scenario, now, timers, micro, pc, opts, kind, fbOk, phase, race,
          compRef, heap, hashes, successCount, totalCount, report,
          startedAt, sync, input, output, applied, objects, self, history>>

\* The instance's agent and the record of the calls made on it.
instVars == <<objects, self, history>>

\* The state of a direct call of a synchronous function.
callVars == <<input, output, applied, objects, self, history>>

\* The state of the orchestrator.
orchVars == <<scenario, now, timers, micro, pc, opts, kind, fbOk, phase, race,
              compRef, heap, hashes, successCount, totalCount, report,
              startedAt, sync>>

ComponentNames == SignalSet \cup {"basic"}

Absent == [present |-> FALSE, value |-> Null, success |-> FALSE]

\* An entry of components that is marked successful whatever it holds.
ComponentMarkedSuccessful(value, success) ==
  [present |-> TRUE, value |-> value, success |-> TRUE]

\* components.<name> = { name, value, success }
Component(value, success) == [present |-> TRUE, value |-> value, success |-> success]

\* The entry components.basic is created with, before this.get() is called.
BasicPlaceholder == Component(Null, FALSE)

\* components.basic = { name: 'basic', value: basicHash, success: true }
BasicComponent == Component(basicHash, TRUE)

\* The value a call resolves with: uuid, components (a reference to the
\* call's components object) and confidence.  snapshot, pending and inflight
\* record what held at that moment: the object's content, the tasks that had
\* not run their body, and the other calls that had not returned.
NoReport == [resolved |-> FALSE, uuid |-> <<>>, getAsync |-> <<>>, components |-> 0,
             confidence |-> [num |-> 0, den |-> 1],
             snapshot |-> [n \in ComponentNames |-> Absent],
             pending |-> {}, inflight |-> {}]

\* ----------------------------------------------------------------- timers
\* A timer joins the list behind every timer due no later than it.
InsertTimer(ts, t) ==
  LET k == Cardinality({j \in 1..Len(ts) : ts[j].at <= t.at})
  IN SubSeq(ts, 1, k) \o <<t>> \o SubSeq(ts, k + 1, Len(ts))

\* clearTimeout
RemoveTimer(ts, i, knd) ==
  SelectSeq(ts, LAMBDA t : ~(t.call = i /\ t.kind = knd))

Timer(i, knd, s, at) == [call |-> i, kind |-> knd, sig |-> s, at |-> at]

\* A job of the microtask queue: the continuation `sig` of call i, reached
\* after `hops` promise reactions, carrying the awaited value.
Job(i, k, s, hops, res) == [call |-> i, k |-> k, sig |-> s, hops |-> hops, res |-> res]


\* ------------------------------------------------- the body of one call
\* The part of one call's state that its synchronous code changes, threaded
\* through the steps below: L = [timers, micro, phase, total, pcv, racev,
\* started].

\* What a promise that rejects carries through the await chain.
Rejection == "rejection"

\* ResultOf without the collectors' catch blocks: a throwing API rejects the
\* collector's promise.
ResultOfNoCatch(s, k) ==
  CASE k = "ok" -> HashOf(s)
    [] k = "throw" -> Rejection
    [] OTHER -> Null

\* The value the collector of s hands to measureAsync once its API has
\* answered in the way k says: its hash, null when the API is absent, and
\* null from the collector's catch block when the API throws or rejects.
ResultOf(s, k) ==
  CASE k = "ok" -> HashOf(s)
    [] k = "throw" -> Null
    [] OTHER -> Null

\* generateFallbackFingerprint(): a hash of the AudioContext properties, or
\* null.
FallbackResult(fb) == IF fb THEN "h_audio_fallback" ELSE Null

\* Promise reactions between the event that decides a collector's result and
\* the task body that records it.
\*   sync   : canvas/webgl/fonts, whose generateFingerprint() has no await:
\*            race reaction, async-return of the race promise, measureAsync's
\*            await, the task's await
\*   absent : an async collector that returns null before its first await
\*   md     : getMediaDevicesHash / detectIncognito after their awaited API
\*            promise settles
\*   audio  : getAudioFingerprint after the offline promise settles
TaskHops(how) ==
  CASE how = "sync" -> 4
    [] how = "absent" -> 2
    [] how = "md" -> 3
    [] how = "audio" -> 5

\* Reactions before getDetailedAsync resumes after an await.
\*   inline : await measureAsync(() => Promise.resolve(x))
\*   all    : withTimeout's race won by Promise.all(tasks)
\*   empty  : the same with an empty task list
\*   timer  : the race won by the timer promise
MainHops(how) ==
  CASE how = "inline" -> 2
    [] how = "all" -> 3
    [] how = "empty" -> 2
    [] how = "timer" -> 2

\* The async IIFE of signal s is called: the collector runs to its first
\* suspension.
StartTask(L, i, s, o, kd) ==
  LET due == now + ClampDelay(MethodBudget(o, s))
      L1  == [L EXCEPT !.started[s] = now] IN
  CASE s \in {"canvas", "webgl", "fonts"} ->
         \* withTimeout(generateFingerprint(), timeout, null)
         [L1 EXCEPT !.timers = InsertTimer(@, Timer(i, "method", s, due)),
                    !.micro = Append(@, Job(i, "task", s, TaskHops("sync"),
                                            ResultOf(s, kd[s]))),
                    !.phase[s] = "queued"]
    [] s = "audio" ->
         IF kd[s] = "null"
         THEN \* if (!isBrowser()) return null
              [L1 EXCEPT !.micro = Append(@, Job(i, "task", s, TaskHops("absent"), Null)),
                         !.phase[s] = "queued"]
         ELSE \* withTimeout(generateOfflineFingerprint(timeout), timeout, null)
              [L1 EXCEPT !.timers = InsertTimer(
                                      InsertTimer(@, Timer(i, "offline", s, due)),
                                      Timer(i, "method", s, due)),
                         !.phase[s] = "api"]
    [] s \in {"mediaDevices", "incognito"} ->
         IF kd[s] = "null"
         THEN [L1 EXCEPT !.micro = Append(@, Job(i, "task", s, TaskHops("absent"), Null)),
                         !.phase[s] = "queued"]
         ELSE \* await nav.mediaDevices.enumerateDevices() /
              \* await navigator.storage.estimate()
              [L1 EXCEPT !.phase[s] = "api"]

\* MaybeStart without the test of the option: every task is started.
MaybeStartUnguarded(L, i, s, o, kd) ==
  StartTask([L EXCEPT !.total = @ + 1], i, s, o, kd)

\* if (resolvedOptions.<s>) { totalCount++; tasks.push((async () => ...)()) }
MaybeStart(L, i, s, o, kd) ==
  IF Enabled(o, s)
  THEN StartTask([L EXCEPT !.total = @ + 1], i, s, o, kd)
  ELSE L

RECURSIVE StartAll(_, _, _, _, _)
StartAll(L, i, ss, o, kd) ==
  IF ss = <<>> THEN L
  ELSE StartAll(MaybeStart(L, i, Head(ss), o, kd), i, Tail(ss), o, kd)

\* Every task pushed to `tasks` has run its body.
AllTasksDone(ph, o) ==
  \A s \in TaskSignals : Enabled(o, s) => ph[s] = "done"

AnyTaskRejected(ph) == \E s \in TaskSignals : ph[s] = "rejected"

NoTasks(o) == \A s \in TaskSignals : ~Enabled(o, s)

\* EnterRace with a bare `await Promise.all(tasks)`: no global timer.
EnterRaceNoTimeout(L, i, o, kd) ==
  LET L1 == MaybeStart(L, i, "incognito", o, kd)
      L2 == [L1 EXCEPT !.pcv = "race"] IN
  IF AnyTaskRejected(L2.phase)
  THEN [L2 EXCEPT !.racev = "settled",
                  !.micro = Append(@, Job(i, "main", "fail", MainHops("all"), Null))]
  ELSE IF AllTasksDone(L2.phase, o)
  THEN [L2 EXCEPT !.racev = "settled",
                  !.micro = Append(@, Job(i, "main", "finish",
                               IF NoTasks(o) THEN MainHops("empty") ELSE MainHops("all"),
                               Null))]
  ELSE [L2 EXCEPT !.racev = "pending"]

\* The incognito task is started, then
\* await withTimeout(Promise.all(tasks), resolvedOptions.timeout ?? 5000, [])
EnterRace(L, i, o, kd) ==
  LET L1 == MaybeStart(L, i, "incognito", o, kd)
      L2 == [L1 EXCEPT !.timers = InsertTimer(@,
                          Timer(i, "global", "all", now + ClampDelay(GlobalBudget(o)))),
                       !.pcv = "race"] IN
  IF AnyTaskRejected(L2.phase)
  THEN [L2 EXCEPT !.racev = "settled",
                  !.micro = Append(@, Job(i, "main", "fail", MainHops("all"), Null))]
  ELSE IF AllTasksDone(L2.phase, o)
  THEN [L2 EXCEPT !.racev = "settled",
                  !.micro = Append(@, Job(i, "main", "finish",
                               IF NoTasks(o) THEN MainHops("empty") ELSE MainHops("all"),
                               Null))]
  ELSE [L2 EXCEPT !.racev = "pending"]

\* if (resolvedOptions.timezone) { totalCount++; await measureAsync(...) }
AfterNetworkInfo(L, i, o, kd) ==
  IF Enabled(o, "timezone")
  THEN [L EXCEPT !.total = @ + 1,
                 !.started["timezone"] = now,
                 !.micro = Append(@, Job(i, "main", "timezone", MainHops("inline"),
                                         ResultOf("timezone", kd["timezone"]))),
                 !.pcv = "timezone"]
  ELSE EnterRace(L, i, o, kd)

\* if (resolvedOptions.networkInfo) { totalCount++; await measureAsync(...) }
AfterEarlyTasks(L, i, o, kd) ==
  IF Enabled(o, "networkInfo")
  THEN [L EXCEPT !.total = @ + 1,
                 !.started["networkInfo"] = now,
                 !.micro = Append(@, Job(i, "main", "networkInfo", MainHops("inline"),
                                         ResultOf("networkInfo", kd["networkInfo"]))),
                 !.pcv = "networkInfo"]
  ELSE AfterNetworkInfo(L, i, o, kd)

\* The local view of call i.
Local(i) ==
  [timers |-> timers, micro |-> micro, phase |-> phase[i], total |-> totalCount[i],
   pcv |-> pc[i], racev |-> race[i], started |-> startedAt[i]]

\* NewComponents with one components object kept on the instance.
NewComponentsShared(i) == 1

\* The object a call's `components` refers to: a fresh literal per call.
NewComponents(i) == i


\* ----------------------------------------------------------------- inputs
Undefined == [kind |-> "undefined", name |-> "", obj |-> EmptyObject]

PresetArg(name) == [kind |-> "string", name |-> name, obj |-> EmptyObject]

ObjectArg(obj) == [kind |-> "object", name |-> "", obj |-> obj]

\* The object literal obj extended by the key k with value v.
With(obj, k, v) == [keys |-> obj.keys \cup {k}, val |-> [obj.val EXCEPT ![k] = v]]

\* The out-of-range global timeouts of the "Extreme Timeout Values" tests.
BadTimeouts == {Num(0), Num(-1), NaN}

\* The arguments a single call is given.
SingleArgs ==
  {Undefined, PresetArg("minimal"), PresetArg("standard"), PresetArg("unknown"),
   ObjectArg(With(With(EmptyObject, "audio", TRUE), "mediaDevices", TRUE)),
   ObjectArg(With(With(EmptyObject, "networkInfo", TRUE), "incognitoDetection", TRUE)),
   ObjectArg(With(With(With(EmptyObject, "fonts", "list"), "audio", TRUE),
                  "timeout", Num(500)))}
  \cup {ObjectArg(With(With(EmptyObject, "mediaDevices", TRUE), "timeout", t)) :
          t \in BadTimeouts}

\* The arguments of overlapping calls.
OverlapArgs ==
  {ObjectArg(With(With(EmptyObject, "audio", TRUE), "mediaDevices", TRUE)),
   ObjectArg(With(EmptyObject, "canvas", TRUE))}

AllKinds == {"ok", "null", "throw", "hang"}

\* The API behaviours a call may meet for signal s, under options o.
KindChoices(o, s, allowed) ==
  IF Enabled(o, s) THEN Kinds(s) \cap allowed ELSE {"none"}

\* indexedDB wait of detectIncognito: setTimeout(resolve, 100).
IdbWait == 100

\* ------------------------------------------------------------------- Init
InitWith(sc) ==
  /\ scenario = sc
  /\ now = 0
  /\ timers = <<>>
  /\ micro = <<>>
  /\ pc = [i \in Calls |-> "idle"]
  /\ opts = [i \in Calls |-> EmptyObject]
  /\ kind = [i \in Calls |-> [s \in SignalSet |-> "none"]]
  /\ fbOk = [i \in Calls |-> FALSE]
  /\ phase = [i \in Calls |-> [s \in SignalSet |-> "off"]]
  /\ race = [i \in Calls |-> "none"]
  /\ compRef = [i \in Calls |-> 0]
  /\ heap = [r \in Calls |-> [n \in ComponentNames |-> Absent]]
  /\ hashes = [i \in Calls |-> <<>>]
  /\ successCount = [i \in Calls |-> 0]
  /\ totalCount = [i \in Calls |-> 0]
  /\ report = [i \in Calls |-> NoReport]
  /\ startedAt = [i \in Calls |-> [s \in SignalSet |-> -1]]
  /\ sync = FALSE

\* No direct call of a synchronous function is made.
NoDirectCall ==
  /\ input = <<>>
  /\ output = <<>>
  /\ applied = "none"
  /\ objects = <<DEFAULT_AGENT>>
  /\ self = 1
  /\ history = <<>>

\* One call at a time on a fresh instance, every input and API behaviour.
Init ==
  /\ InitWith([calls |-> 1, args |-> SingleArgs, kinds |-> AllKinds])
  /\ NoDirectCall

\* Overlapping calls on one instance.
InitOverlap ==
  /\ InitWith([calls |-> MaxCalls, args |-> OverlapArgs, kinds |-> {"ok"}])
  /\ NoDirectCall

\* ---------------------------------------------------------------- actions
\* getDetailedAsync(arg) is called: its code up to the first await.
Invoke(i, arg) ==
  /\ i <= scenario.calls
  /\ arg \in scenario.args
  /\ pc[i] = "idle"
  /\ \A h \in Calls : h < i => pc[h] # "idle"
  \* the caller runs in a macrotask of its own, or goes on from a call it
  \* has just made
  /\ micro = <<>> \/ sync
  /\ sync' = TRUE
  /\ UNCHANGED callVars
  /\ LET o == ResolveOptions(arg) IN
     \E kc \in KindChoices(o, "canvas", scenario.kinds),
        kw \in KindChoices(o, "webgl", scenario.kinds),
        ka \in KindChoices(o, "audio", scenario.kinds),
        kf \in KindChoices(o, "fonts", scenario.kinds),
        km \in KindChoices(o, "mediaDevices", scenario.kinds),
        kn \in KindChoices(o, "networkInfo", scenario.kinds),
        kt \in KindChoices(o, "timezone", scenario.kinds),
        ki \in KindChoices(o, "incognito", scenario.kinds),
        fb \in BOOLEAN :
       LET kd == [s \in SignalSet |->
                    CASE s = "canvas" -> kc [] s = "webgl" -> kw
                      [] s = "audio" -> ka [] s = "fonts" -> kf
                      [] s = "mediaDevices" -> km [] s = "networkInfo" -> kn
                      [] s = "timezone" -> kt [] s = "incognito" -> ki]
           L0 == [Local(i) EXCEPT !.total = 1]
           L  == AfterEarlyTasks(StartAll(L0, i, EarlyTasks, o, kd), i, o, kd)
           ref == NewComponents(i)
       IN /\ fb => ka \in {"throw", "hang"}
          /\ opts' = [opts EXCEPT ![i] = o]
          /\ kind' = [kind EXCEPT ![i] = kd]
          /\ fbOk' = [fbOk EXCEPT ![i] = fb]
          /\ compRef' = [compRef EXCEPT ![i] = ref]
          /\ heap' = [heap EXCEPT ![ref] =
                        [n \in ComponentNames |->
                           IF n = "basic" THEN BasicComponent ELSE Absent]]
          /\ hashes' = [hashes EXCEPT ![i] = <<basicHash>>]
          /\ successCount' = [successCount EXCEPT ![i] = 1]
          /\ totalCount' = [totalCount EXCEPT ![i] = L.total]
          /\ timers' = L.timers
          /\ micro' = L.micro
          /\ phase' = [phase EXCEPT ![i] = L.phase]
          /\ pc' = [pc EXCEPT ![i] = L.pcv]
          /\ race' = [race EXCEPT ![i] = L.racev]
          /\ startedAt' = [startedAt EXCEPT ![i] = L.started]
          /\ UNCHANGED <<scenario, now, report>>


\* The signals of call i whose task has been started and has not run its
\* body.
PendingTasks(i) == {s \in TaskSignals : phase[i][s] \in {"api", "idb", "queued"}}

\* The body of the async IIFE of signal s after `await measureAsync(...)`:
\* components.<s> = {...}; if (result) { hashes.push(result); successCount++ }.
TaskBody(i, s, res, rest) ==
  LET ph == [phase[i] EXCEPT ![s] = IF res = Rejection THEN "rejected" ELSE "done"]
      waiting == pc[i] = "race" /\ race[i] = "pending"
      settle == /\ waiting
                /\ \/ res = Rejection
                   \/ AllTasksDone(ph, opts[i])
  IN /\ phase' = [phase EXCEPT ![i] = ph]
     /\ IF res = Rejection
        THEN UNCHANGED <<heap, hashes, successCount>>
        ELSE /\ heap' = [heap EXCEPT ![compRef[i]][s] = Component(res, res # Null)]
             /\ IF res # Null /\ res # ""
                THEN /\ hashes' = [hashes EXCEPT ![i] = Append(@, res)]
                     /\ successCount' = [successCount EXCEPT ![i] = @ + 1]
                ELSE UNCHANGED <<hashes, successCount>>
     /\ race' = [race EXCEPT ![i] = IF settle THEN "settled" ELSE @]
     /\ micro' = IF settle
                 THEN Append(rest, Job(i, "main",
                                       IF res = Rejection THEN "fail" ELSE "finish",
                                       MainHops("all"), Null))
                 ELSE rest
     /\ sync' = FALSE
     /\ UNCHANGED callVars
     /\ UNCHANGED <<scenario, now, timers, pc, opts, kind, fbOk, compRef,
                    totalCount, report, startedAt>>

\* getDetailedAsync resumes after the inline await of networkInfo or
\* timezone, records the component and runs on to its next await.
InlineBody(i, s, res, rest) ==
  LET L0 == [Local(i) EXCEPT !.micro = rest]
      L  == IF s = "networkInfo"
            THEN AfterNetworkInfo(L0, i, opts[i], kind[i])
            ELSE EnterRace(L0, i, opts[i], kind[i])
  IN IF res = Rejection
     THEN /\ pc' = [pc EXCEPT ![i] = "rejected"]
          /\ micro' = rest
          /\ sync' = FALSE
          /\ UNCHANGED callVars
          /\ UNCHANGED <<scenario, now, timers, opts, kind, fbOk, phase, race, compRef,
                         heap, hashes, successCount, totalCount, report, startedAt>>
     ELSE /\ heap' = [heap EXCEPT ![compRef[i]][s] = Component(res, res # Null)]
          /\ IF res # Null /\ res # ""
             THEN /\ hashes' = [hashes EXCEPT ![i] = Append(@, res)]
                  /\ successCount' = [successCount EXCEPT ![i] = @ + 1]
             ELSE UNCHANGED <<hashes, successCount>>
          /\ timers' = L.timers
          /\ micro' = L.micro
          /\ phase' = [phase EXCEPT ![i] = L.phase]
          /\ totalCount' = [totalCount EXCEPT ![i] = L.total]
          /\ pc' = [pc EXCEPT ![i] = L.pcv]
          /\ race' = [race EXCEPT ![i] = L.racev]
          /\ startedAt' = [startedAt EXCEPT ![i] = L.started]
          /\ sync' = FALSE
          /\ UNCHANGED callVars
          /\ UNCHANGED <<scenario, now, opts, kind, fbOk, compRef, report>>

\* getAsync that calls getDetailedAsync() without its options argument.
getAsyncWithoutOptions(details) == EncodeUuid(hashMD5(combineHashes(<<basicHash>>)))

\* getAsync(options): details = await this.getDetailedAsync(options);
\* return details.uuid.
getAsync(details) == details.uuid

\* getDetailedAsync resumes after the race: combine, encode, return (the
\* report also records what getAsync returns from it).
FinishBody(i, rest) ==
  LET combinedData == combineHashes(hashes[i])
      finalHash == hashMD5(combinedData)
  IN /\ report' = [report EXCEPT ![i] =
                     [resolved |-> TRUE,
                      uuid |-> EncodeUuid(finalHash),
                      getAsync |-> getAsync([uuid |-> EncodeUuid(finalHash)]),
                      components |-> compRef[i],
                      confidence |-> calculateConfidence(totalCount[i], successCount[i]),
                      snapshot |-> heap[compRef[i]],
                      pending |-> PendingTasks(i),
                      inflight |-> {j \in Calls \ {i} :
                                      pc[j] \in {"networkInfo", "timezone", "race"}}]]
     /\ pc' = [pc EXCEPT ![i] = "done"]
     /\ micro' = rest
     /\ sync' = FALSE
     /\ UNCHANGED callVars
     /\ UNCHANGED <<scenario, now, timers, opts, kind, fbOk, phase, race, compRef,
                    heap, hashes, successCount, totalCount, startedAt>>

\* The awaited race rejected: getDetailedAsync throws, its promise rejects.
FailBody(i, rest) ==
  /\ pc' = [pc EXCEPT ![i] = "rejected"]
  /\ micro' = rest
  /\ sync' = FALSE
  /\ UNCHANGED callVars
  /\ UNCHANGED <<scenario, now, timers, opts, kind, fbOk, phase, race, compRef,
                 heap, hashes, successCount, totalCount, report, startedAt>>

\* The event loop runs the first job of the microtask queue.
RunMicrotask ==
  /\ micro # <<>>
  /\ LET j == Head(micro)
         rest == Tail(micro)
     IN IF j.hops > 1
        THEN /\ micro' = Append(rest, [j EXCEPT !.hops = @ - 1])
             /\ sync' = FALSE
             /\ UNCHANGED callVars
             /\ UNCHANGED <<scenario, now, timers, pc, opts, kind, fbOk, phase, race,
                            compRef, heap, hashes, successCount, totalCount, report,
                            startedAt>>
        ELSE CASE j.k = "task" -> TaskBody(j.call, j.sig, j.res, rest)
               [] j.k = "main" /\ j.sig \in {"networkInfo", "timezone"} ->
                    InlineBody(j.call, j.sig, j.res, rest)
               [] j.k = "main" /\ j.sig = "finish" -> FinishBody(j.call, rest)
               [] j.k = "main" /\ j.sig = "fail" -> FailBody(j.call, rest)

\* A browser API promise settles (a macrotask): the collector resumes.
Settle(i, s) ==
  /\ micro = <<>>
  /\ \/ /\ s = "audio"
        /\ phase[i][s] = "api"
        /\ kind[i][s] \in {"ok", "throw"}
        \* startRendering().then: clearTimeout(timeoutId); resolve(hash)
        \* .catch: clearTimeout(timeoutId); resolve(null), then the fallback
        /\ timers' = RemoveTimer(timers, i, "offline")
        /\ micro' = <<Job(i, "task", s, TaskHops("audio"),
                          IF kind[i][s] = "ok" THEN HashOf(s)
                          ELSE FallbackResult(fbOk[i]))>>
        /\ phase' = [phase EXCEPT ![i][s] = "queued"]
     \/ /\ s = "mediaDevices"
        /\ phase[i][s] = "api"
        /\ kind[i][s] \in {"ok", "throw"}
        /\ micro' = <<Job(i, "task", s, TaskHops("md"), ResultOf(s, kind[i][s]))>>
        /\ phase' = [phase EXCEPT ![i][s] = "queued"]
        /\ UNCHANGED timers
     \/ /\ s = "incognito"
        /\ phase[i][s] = "api"
        /\ kind[i][s] = "throw"
        /\ micro' = <<Job(i, "task", s, TaskHops("md"), ResultOf(s, kind[i][s]))>>
        /\ phase' = [phase EXCEPT ![i][s] = "queued"]
        /\ UNCHANGED timers
     \/ /\ s = "incognito"
        /\ phase[i][s] = "api"
        /\ kind[i][s] = "ok"
        \* estimate() resolved: indexedDB.open('test'); setTimeout(resolve, 100)
        /\ timers' = InsertTimer(timers, Timer(i, "idb", s, now + IdbWait))
        /\ phase' = [phase EXCEPT ![i][s] = "idb"]
        /\ UNCHANGED micro
     \/ /\ s = "incognito"
        /\ phase[i][s] = "idb"
        \* db.onsuccess: indicators.push('idb:available'); resolve()
        /\ micro' = <<Job(i, "task", s, TaskHops("md"), HashOf(s))>>
        /\ phase' = [phase EXCEPT ![i][s] = "queued"]
        /\ UNCHANGED timers
  /\ sync' = FALSE
  /\ UNCHANGED callVars
  /\ UNCHANGED <<scenario, now, pc, opts, kind, fbOk, race, compRef, heap, hashes,
                 successCount, totalCount, report, startedAt>>

\* The earliest timer fires (a macrotask).
FireTimer ==
  /\ micro = <<>>
  /\ timers # <<>>
  /\ LET t == Head(timers)
         i == t.call
     IN /\ now' = IF t.at > now THEN t.at ELSE now
        /\ timers' = Tail(timers)
        /\ CASE t.kind = "offline" /\ phase[i]["audio"] = "api" ->
                  \* setTimeout(() => resolve(null), timeout), then the fallback
                  /\ micro' = <<Job(i, "task", "audio", TaskHops("audio"),
                                    FallbackResult(fbOk[i]))>>
                  /\ phase' = [phase EXCEPT ![i]["audio"] = "queued"]
                  /\ UNCHANGED race
             [] t.kind = "idb" /\ phase[i]["incognito"] = "idb" ->
                  \* setTimeout(resolve, 100): no idb indicator was pushed
                  /\ micro' = <<Job(i, "task", "incognito", TaskHops("md"),
                                    "h_incognito_noidb")>>
                  /\ phase' = [phase EXCEPT ![i]["incognito"] = "queued"]
                  /\ UNCHANGED race
             [] t.kind = "global" /\ race[i] = "pending" ->
                  \* setTimeout(() => resolve(fallback), ms) wins the race
                  /\ micro' = <<Job(i, "main", "finish", MainHops("timer"), Null)>>
                  /\ race' = [race EXCEPT ![i] = "settled"]
                  /\ UNCHANGED phase
             [] OTHER ->
                  \* the race this timer belongs to is already settled
                  UNCHANGED <<micro, phase, race>>
  /\ sync' = FALSE
  /\ UNCHANGED callVars
  /\ UNCHANGED <<scenario, pc, opts, kind, fbOk, compRef, heap, hashes,
                 successCount, totalCount, report, startedAt>>

\* Time passes, up to the moment the next timer is due.
Wait ==
  /\ micro = <<>>
  /\ timers # <<>>
  /\ Head(timers).at > now
  /\ now' = Head(timers).at
  /\ sync' = FALSE
  /\ UNCHANGED callVars
  /\ UNCHANGED <<scenario, timers, micro, pc, opts, kind, fbOk, phase, race, compRef,
                 heap, hashes, successCount, totalCount, report, startedAt>>

Next ==
  \/ \E i \in Calls, arg \in SingleArgs \cup OverlapArgs : Invoke(i, arg)
  \/ RunMicrotask
  \/ \E i \in Calls, s \in TaskSignals : Settle(i, s)
  \/ FireTimer
  \/ Wait

Spec == Init /\ [][Next]_vars

SpecOverlap == InitOverlap /\ [][Next]_vars

\* The event loop keeps running: queued jobs run and armed timers fire.
FairSpec == Spec /\ WF_vars(RunMicrotask) /\ WF_vars(FireTimer)


\* ---------------------------------------------------------- direct calls
\* The user-agent strings of the environments: a Windows desktop, an
\* Android phone, an iPad.
UserAgents ==
  {{"windows nt 10.0"},
   {"linux", "android", "mobile", "chrome/120.0"},
   SourceOf({"(ipad; cpu os 17_2", "os x", "mobile"})}

Envs ==
  {Env(ua, language, resolution, touch) :
     ua \in UserAgents, language \in {"en-US", "fr-FR"},
     resolution \in {<<"1920", "1080">>, <<"390", "844">>}, touch \in BOOLEAN}

DefaultEnv == Env({"windows nt 10.0"}, "en-US", <<"1920", "1080">>, FALSE)

\* The calls of parse: a given string of at most MaxMarkers markers, or no
\* argument in one of the environments.
ParseInputs ==
  {[source |-> GivenSource(SourceOf(ms)), env |-> DefaultEnv] :
     ms \in MarkerSets(MaxMarkers)}
  \cup {[source |-> s, env |-> e] : s \in {NoSource, EmptySource}, e \in Envs}

\* The calls of parse on a string of at most MaxMarkers browser markers.
BrowserInputs ==
  {[source |-> GivenSource(SourceOf(ms)), env |-> DefaultEnv] :
     ms \in BrowserSets(MaxMarkers)}

\* The option keys the constructor is given, each on or off.
ToggledKeys == {"language", "resolution", "isMobile"}

UserOptions == UNION {[K -> BOOLEAN] : K \in SUBSET ToggledKeys}

\* The calls of get: new DeviceUUID(options).get(customData) in an
\* environment.
GetInputs ==
  [options : {DeviceOptions(o) : o \in UserOptions},
   customData : {<<>>, <<"c">>},
   env : Envs]

\* The characters of a custom-data argument, and the arguments of at most n
\* characters ('' among them, which get() takes as no argument).
Chars == {"c", "\r", "\n"}

RECURSIVE StringsUpTo(_)
StringsUpTo(n) ==
  IF n = 0 THEN {<<>>}
  ELSE LET S == StringsUpTo(n - 1) IN S \cup {Append(s, ch) : s \in S, ch \in Chars}

CustomDatas == StringsUpTo(MaxData)

\* The calls of get(customData) on an instance with the default options.
GetDataInputs ==
  [options : {DeviceOptions(<<>>)},
   customData : CustomDatas,
   env : {Env(ua, "en-US", <<"390", "844">>, FALSE) : ua \in UserAgents}]

\* The option arguments of getAsync / getDetailedAsync: nothing, a preset
\* name, an object of at most two signal keys with or without a preset key.
OptionObjects ==
  LET One == {With(EmptyObject, k, v) :
                k \in {"canvas", "webgl", "audio", "timezone"}, v \in BOOLEAN}
      Two == {With(o, "networkInfo", v) : o \in One, v \in BOOLEAN}
      Plain == {EmptyObject} \cup One \cup Two
  IN Plain \cup {With(o, "preset", p) : o \in Plain, p \in PresetNames}

OptionInputs ==
  {Undefined} \cup {PresetArg(p) : p \in PresetNames \cup {"unknown"}}
  \cup {ObjectArg(o) : o \in OptionObjects}

InitDirect(inputs) ==
  /\ InitWith([calls |-> 1, args |-> {Undefined}, kinds |-> {"ok"}])
  /\ input \in inputs
  /\ output = <<>>
  /\ applied = "none"
  /\ objects = <<DEFAULT_AGENT>>
  /\ self = 1
  /\ history = <<>>

\* DeviceUUID.parse(source)
Parse ==
  /\ applied = "none"
  /\ applied' = "parse"
  /\ output' = parse(input.source, input.env)
  /\ UNCHANGED <<input, orchVars, instVars>>

\* new DeviceUUID(options).get(customData)
Get ==
  /\ applied = "none"
  /\ applied' = "get"
  /\ output' = get(input.options, input.customData, input.env)
  /\ UNCHANGED <<input, orchVars, instVars>>

\* The first statement of getDetailedAsync(options)
Resolve ==
  /\ applied = "none"
  /\ applied' = "resolve"
  /\ output' = ResolveOptions(input)
  /\ UNCHANGED <<input, orchVars, instVars>>

\* The counts calculateConfidence is called with: any two integers of
\* magnitude MaxCount at most.
ConfidenceInputs ==
  [total : -MaxCount..MaxCount, successful : -MaxCount..MaxCount]

\* calculateConfidence(total, successful)
Confidence ==
  /\ applied = "none"
  /\ applied' = "calculateConfidence"
  /\ output' = calculateConfidence(input.total, input.successful)
  /\ UNCHANGED <<input, orchVars, instVars>>

\* The strings given to hashInt: at most MaxLen characters, each one of
\* the char codes of 'a', of a CJK character, and the largest one.
CharCodes == {97, 20320, 65535}

RECURSIVE CodesUpTo(_)
CodesUpTo(n) ==
  IF n = 0 THEN {<<>>}
  ELSE LET S == CodesUpTo(n - 1) IN S \cup {Append(s, ch) : s \in S, ch \in CharCodes}

HashInputs == CodesUpTo(MaxLen)

\* hashInt(str)
HashInt ==
  /\ applied = "none"
  /\ applied' = "hashInt"
  /\ output' = hashInt(input)
  /\ UNCHANGED <<input, orchVars, instVars>>

\* The final MD5 states a uuid is formatted from.
Words == {Word(0, 0), Word(65535, 65535), Word(291, 17767), Word(35243, 52719)}

DigestInputs == [a : Words, b : Words, c : Words, d : Words]

\* The last statements of get() and of getDetailedAsync(): the digest is
\* formatted as the uuid.
Encode ==
  /\ applied = "none"
  /\ applied' = "encode"
  /\ output' = FormatUuid(DigestOf(input))
  /\ UNCHANGED <<input, orchVars, instVars>>

\* ------------------------------------------------------------ the instance
\* The instance under test and its browser.
InstanceInputs ==
  [options : {DeviceOptions(<<>>)},
   env : {DefaultEnv,
          Env({"linux", "android", "mobile", "chrome/120.0"}, "en-US",
              <<"390", "844">>, TRUE)}]

\* The strings the tests assign to device.userAgent or pass to parse.
AssignedAgents ==
  {SourceOf({"(iphone; cpu iphone os 17_2", "os x", "mobile"}),
   {"smart-tv", "linux"}}

\* getComponents(): the digests of the parts of this.parse().
getComponents(env) ==
  LET du == parse(NoSource, env) IN
  [userAgent |-> hashMD5(<<du.source>>),
   platform  |-> hashMD5(<<du.platform>>),
   os        |-> hashMD5(<<du.os>>),
   browser   |-> hashMD5(<<du.browser, ":", du.version>>),
   screen    |-> hashMD5(<<du.resolution[1], "x", du.resolution[2], ":",
                           du.colorDepth, ":", du.pixelDepth>>),
   hardware  |-> hashMD5(<<du.cpuCores, ":"
                         >> \o (IF du.isTouchScreen THEN <<"true">> ELSE <<"false">>)),
   language  |-> hashMD5(<<du.language>>)]

\* parse with `const ua = this`: the profile is built in this.agent.
ParseTargetInPlace(this, objs) == this

\* `const ua = new DeviceUUID()` in parse: the profile is built in the agent
\* of a new instance, a new object.
ParseTarget(this, objs) == Len(objs) + 1

\* The objects after the object at t is (created and) set to value.
Store(objs, t, value) ==
  IF t > Len(objs) THEN Append(objs, value) ELSE [objs EXCEPT ![t] = value]

\* One finished call, for the record of the calls made on the instance.
Entry(op, arg, ref, result, before, after) ==
  [op |-> op, arg |-> arg, ref |-> ref, result |-> result,
   before |-> before, after |-> after]

\* A call that runs this.parse(source) and returns result (the profile
\* itself when result is "profile").
ParsingCall(op, arg, source, result) ==
  LET t == ParseTarget(self, objects)
      profile == parse(source, input.env)
      objs == Store(objects, t, profile)
  IN /\ Len(history) < MaxOps
     /\ objects' = objs
     /\ history' = Append(history,
                          Entry(op, arg, t,
                                IF op = "parse" THEN profile ELSE result,
                                objects[self], objs[self]))
     /\ UNCHANGED <<self, input, output, applied, orchVars>>

\* device.parse(source)
CallParse(source) == ParsingCall("parse", source, source, <<>>)

\* device.get(customData)
CallGet(customData) ==
  ParsingCall("get", customData, NoSource,
              get(input.options, customData, input.env))

\* device.getComponents()
CallGetComponents ==
  ParsingCall("getComponents", <<>>, NoSource, getComponents(input.env))

\* device.getDetailedAsync() / getAsync() up to `const basicHash = this.get()`,
\* the one place where they use the instance's state.
CallAsync ==
  ParsingCall("async", <<>>, NoSource, get(input.options, <<>>, input.env))

\* device.userAgent = value
SetUserAgent(value) ==
  /\ Len(history) < MaxOps
  /\ objects' = [objects EXCEPT ![self].source = value]
  /\ history' = Append(history,
                       Entry("set", value, self, <<>>, objects[self],
                             [objects[self] EXCEPT !.source = value]))
  /\ UNCHANGED <<self, input, output, applied, orchVars>>

\* device.reset()
Reset ==
  /\ Len(history) < MaxOps
  /\ objects' = Append(objects, DEFAULT_AGENT)
  /\ self' = Len(objects) + 1
  /\ history' = Append(history,
                       Entry("reset", <<>>, Len(objects) + 1, <<>>, objects[self],
                             DEFAULT_AGENT))
  /\ UNCHANGED <<input, output, applied, orchVars>>

NextInstance ==
  \/ \E source \in {NoSource} \cup {GivenSource(ua) : ua \in AssignedAgents} :
       CallParse(source)
  \/ \E customData \in {<<>>, <<"c">>} : CallGet(customData)
  \/ CallGetComponents
  \/ CallAsync
  \/ \E value \in AssignedAgents : SetUserAgent(value)
  \/ Reset

SpecInstance == InitDirect(InstanceInputs) /\ [][NextInstance]_vars

SpecEncode == InitDirect(DigestInputs) /\ [][Encode]_vars

SpecParse == InitDirect(ParseInputs) /\ [][Parse]_vars

SpecBrowser == InitDirect(BrowserInputs) /\ [][Parse]_vars

SpecConfidence == InitDirect(ConfidenceInputs) /\ [][Confidence]_vars

SpecHashInt == InitDirect(HashInputs) /\ [][HashInt]_vars

SpecGet == InitDirect(GetInputs) /\ [][Get]_vars

SpecOptions == InitDirect(OptionInputs) /\ [][Resolve]_vars

SpecGetData == InitDirect(GetDataInputs) /\ [][Get]_vars


\* ================================================================= claims
\* What the collector of s returned, or will return, in call i.
CollectorResults(i, s) ==
  CASE s = "audio" ->
         IF kind[i][s] = "ok" THEN {HashOf(s), FallbackResult(fbOk[i])}
         ELSE IF kind[i][s] = "null" THEN {Null}
         ELSE {FallbackResult(fbOk[i])}
    [] s = "incognito" ->
         IF kind[i][s] = "ok" THEN {HashOf(s), "h_incognito_noidb"} ELSE {Null}
    [] OTHER -> {ResultOf(s, kind[i][s])}

Resolved(i) == report[i].resolved

\* The components object as it was when call i resolved.
Snap(i) == report[i].snapshot

GlobalTimerArmed(i) ==
  \E k \in 1..Len(timers) : timers[k].call = i /\ timers[k].kind = "global"

\* ---- C1
\* C1: determinism under scheduling.  Two calls with the same options whose
\* collectors produced the same outputs, every enabled task having completed
\* before the call returned, have the same uuid, whatever the order in which
\* their tasks completed.
C1_UuidIndependentOfCompletionOrder ==
  \A i, j \in Calls :
    ( /\ Resolved(i) /\ Resolved(j)
      /\ opts[i] = opts[j]
      /\ kind[i] = kind[j]
      /\ report[i].pending = {} /\ report[j].pending = {}
      /\ Snap(i) = Snap(j) )
    => report[i].uuid = report[j].uuid

\* ---- C2
\* The payload a uuid was digested from.
PayloadOf(uuid) == uuid[2][2]

\* A report is well formed: its uuid encodes the digest of a payload led by
\* the basic hash, and it carries the basic component.
WellFormed(i) ==
  /\ Resolved(i)
  /\ report[i].uuid = EncodeUuid(hashMD5(PayloadOf(report[i].uuid)))
  /\ Len(PayloadOf(report[i].uuid)) >= 1
  /\ Head(PayloadOf(report[i].uuid)) = basicHash
  /\ Snap(i)["basic"] = Component(basicHash, TRUE)

CollectorFails(i, s) ==
  /\ Enabled(opts[i], s)
  /\ kind[i][s] \in {"null", "throw", "hang"}
  /\ s = "audio" => (kind[i][s] = "null" \/ ~fbOk[i])

\* C3: in a report, a signal whose collector returned null, threw or exceeded
\* its timeout has the entry success=false, value=null, and every other
\* enabled signal whose task has run is recorded with what its own collector
\* returned.
C3_FailedSignalRecorded ==
  \A i \in Calls : Resolved(i) =>
    \A s \in SignalSet :
      /\ CollectorFails(i, s) => Snap(i)[s] = Component(Null, FALSE)
      /\ (Enabled(opts[i], s) /\ ~CollectorFails(i, s) /\ s \notin report[i].pending)
           => \E r \in CollectorResults(i, s) : Snap(i)[s] = Component(r, r # Null)

\* ---- C4
\* C4: a task still pending when the global timeout fires has, in the
\* report, the entry success=false, value=null, and is counted as attempted
\* but not successful.
C4_PendingRecordedAsFailed ==
  \A i \in Calls : Resolved(i) =>
    /\ \A s \in report[i].pending : Snap(i)[s] = Component(Null, FALSE)
    /\ report[i].confidence.den =
         1 + Cardinality({s \in SignalSet : Enabled(opts[i], s)})
    /\ report[i].confidence.num =
         1 + Cardinality({s \in SignalSet : Snap(i)[s].success})

\* ---- C5
\* C5: once a call has returned, neither the report nor the components
\* object it refers to ever changes: a task completing late leaves them
\* alone.
C5_ReturnedReportImmutable ==
  [][\A i \in Calls : Resolved(i) =>
       /\ report'[i] = report[i]
       /\ heap'[report[i].components] = heap[report[i].components]]_vars

\* ---- C6
\* The next step runs the body of a signal task.
TaskBodyNext ==
  /\ micro # <<>>
  /\ Head(micro).k = "task"
  /\ Head(micro).hops = 1

\* C6: the body of a signal task writes nothing but its own entry of the
\* call's components object: the other entries, the hashes array and the
\* success counter are left as they were.
C6_TaskWritesOwnEntryOnly ==
  [][(TaskBodyNext /\ RunMicrotask) =>
       LET i == Head(micro).call
           s == Head(micro).sig
       IN /\ hashes' = hashes
          /\ successCount' = successCount
          /\ totalCount' = totalCount
          /\ \A r \in Calls, n \in ComponentNames :
               (r # compRef[i] \/ n # s) => heap'[r][n] = heap[r][n]]_vars

\* ---- C7
\* C7: no optional signal is awaited beyond methodTimeout: a collector that
\* was called and has not answered is within its budget.
C7_SignalBoundedByMethodTimeout ==
  \A i \in Calls, s \in SignalSet :
    phase[i][s] \in {"api", "idb"} =>
      now <= startedAt[i][s] + ClampDelay(MethodBudget(opts[i], s))

\* ---- C8
\* C8: every call eventually returns, and no later than its global timer:
\* a call waiting in the race with nothing left to run still has its global
\* timer armed.
C8_AlwaysResolves ==
  /\ \A i \in Calls : (pc[i] # "idle") ~> (pc[i] = "done")
  /\ [](\A i \in Calls : (pc[i] = "race" /\ micro = <<>>) => GlobalTimerArmed(i))

\* C8 witness: a call has returned while a task whose API never answers was
\* still pending.
C8_Witness ==
  \E i \in Calls, s \in TaskSignals :
    /\ pc[i] = "done" /\ Resolved(i)
    /\ kind[i][s] = "hang"
    /\ s \in report[i].pending

\* ---- C9
\* The values recorded as successful in the report of call i.
SuccessValues(i) ==
  {Snap(i)[n].value : n \in {m \in SignalSet : Snap(i)[m].success}}

\* C9: with calls overlapping on one instance, the report of each call is
\* made of that call's options and collector outputs alone: its entries are
\* those of its own enabled signals with its own collectors' results, its
\* uuid digests the basic hash and exactly its own successful values, and its
\* confidence counts its own signals.
C9_OverlappingCallsIndependent ==
  \A i \in Calls : Resolved(i) =>
    /\ Snap(i)["basic"] = Component(basicHash, TRUE)
    /\ \A n \in SignalSet : Snap(i)[n].present =>
         /\ Enabled(opts[i], n)
         /\ \E r \in CollectorResults(i, n) : Snap(i)[n] = Component(r, r # Null)
    /\ LET p == PayloadOf(report[i].uuid) IN
         /\ {p[k] : k \in 1..Len(p)} = {basicHash} \cup SuccessValues(i)
         /\ Len(p) = 1 + Cardinality(SuccessValues(i))
    /\ report[i].confidence =
         calculateConfidence(1 + Cardinality({s \in SignalSet : Enabled(opts[i], s)}),
                             1 + Cardinality(SuccessValues(i)))

\* C9 witness: two calls with different options have both returned, the
\* second having been in flight when the first returned.
C9_Witness ==
  \E i, j \in Calls :
    /\ i # j
    /\ Resolved(i) /\ Resolved(j)
    /\ opts[i] # opts[j]
    /\ j \in report[i].inflight
    /\ Cardinality(SuccessValues(i)) + Cardinality(SuccessValues(j)) >= 2

\* ---- C10
\* The timeout option of call i is 0, negative or NaN.
OutOfRangeTimeout(i) ==
  /\ pc[i] # "idle"
  /\ "timeout" \in opts[i].keys
  /\ opts[i].val.timeout.nan \/ opts[i].val.timeout.n <= 0

\* C10: a call whose timeout is 0, negative or NaN never rejects; its global
\* timer is due as soon as it is armed, so that the call is never left
\* waiting for a pending task, and what it returns is well formed.
C10_OutOfRangeTimeoutExpired ==
  \A i \in Calls : OutOfRangeTimeout(i) =>
    /\ pc[i] # "rejected"
    /\ \A k \in 1..Len(timers) :
         (timers[k].call = i /\ timers[k].kind = "global") => timers[k].at <= now
    /\ (pc[i] = "race" /\ race[i] = "pending" /\ micro = <<>>) =>
         (timers # <<>> /\ Head(timers).call = i /\ Head(timers).kind = "global")
    /\ pc[i] = "done" => WellFormed(i)

\* C10 witness: a call with timeout NaN has returned at the time it was
\* made, with a task still pending.
C10_Witness ==
  \E i \in Calls :
    /\ pc[i] = "done" /\ WellFormed(i)
    /\ OutOfRangeTimeout(i) /\ opts[i].val.timeout.nan
    /\ report[i].pending # {}
    /\ now = 0

\* ---- C11
\* A call of parse has returned.
Parsed == applied = "parse"

\* The form-factor flags that are true in the profile a.
FormFactors(a) == {f \in {"isMobile", "isTablet", "isDesktop", "isSmartTV"} : a[f]}

\* C11: for every input string, the profile parse returns has at most one of
\* isMobile, isTablet, isDesktop, isSmartTV true.
C11_AtMostOneFormFactor ==
  Parsed => Cardinality(FormFactors(output)) <= 1

\* ---- C12
\* C12: whenever parse classifies the input as a Smart TV, isMobile and
\* isDesktop are both false in the returned profile, whatever mobile or
\* desktop-OS markers the string carries besides.
C12_SmartTVNotMobileNorDesktop ==
  (Parsed /\ output.isSmartTV) => (~output.isMobile /\ ~output.isDesktop)

\* A Smart-TV string that also carries an OS marker that alone would make it
\* a desktop or a mobile device.
C12_Witness ==
  /\ Parsed
  /\ output.isSmartTV
  /\ output.isLinux \/ output.isWindows \/ output.isAndroid
  /\ "mobile" \in output.source

\* ---- C13
\* C13: whenever the input holds a Kindle Fire device code (isKindleFire is
\* set), the returned profile has isTablet true and isMobile false, even if
\* the string also holds "mobile".
C13_KindleFireIsTablet ==
  (Parsed /\ output.isKindleFire) => (output.isTablet /\ ~output.isMobile)

\* ---- C14
\* C14: for every input parse classifies as an iPad or an iPhone, isMac is
\* false in the returned profile.
C14_iOSNeverMac ==
  (Parsed /\ (output.isiPad \/ output.isiPhone)) => ~output.isMac

\* ---- C15
\* C15: for every input parse classifies as Android, isDesktop is false in
\* the returned profile, although the string matches the Linux OS rule too.
C15_AndroidNotDesktop ==
  (Parsed /\ output.isAndroid) => ~output.isDesktop

\* An Android string that the Linux rule of getOS matched.
C15_Witness ==
  /\ Parsed
  /\ output.isAndroid
  /\ output.isLinux
  /\ ~output.isSmartTV

\* ---- C16
\* The option argument is an object that names a preset and carries explicit
\* keys of its own.
PresetWithOverrides ==
  /\ applied = "resolve"
  /\ input.kind = "object"
  /\ "preset" \in input.obj.keys
  /\ input.obj.val.preset \in PresetNames
  /\ input.obj.keys \cap AllOptionKeys # {}

\* C16: an options object that carries both a preset name and explicit keys
\* resolves to the preset's values with the explicit keys overriding them.
C16_PresetWithExplicitOverrides ==
  PresetWithOverrides =>
    \A k \in AllOptionKeys :
      /\ k \in output.keys
      /\ output.val[k] = IF k \in input.obj.keys THEN input.obj.val[k]
                         ELSE FINGERPRINT_PRESETS(input.obj.val.preset).val[k]

\* ---- C17
\* The environments e and f agree on every profile field whose entry in the
\* option template o is true.
AgreeOnIncluded(o, e, f) ==
  \A k \in OptionFieldSet :
    o.val[k] => Str(parse(NoSource, e), k) = Str(parse(NoSource, f), k)

\* C17: the digest of get() covers exactly the profile fields whose entry in
\* the instance's option template is true: two environments that differ only
\* in fields whose option is false get the same UUID.
C17_DigestOfIncludedFieldsOnly ==
  applied = "get" =>
    \A e \in Envs :
      AgreeOnIncluded(input.options, e, input.env)
        => get(input.options, input.customData, e) = output

\* ---- C18
\* C18: for every call of getDetailedAsync, whatever the options and the
\* collector outcomes, the reported confidence c satisfies 0 <= c <= 1.
C18_ConfidenceBetweenZeroAndOne ==
  \A i \in Calls : Resolved(i) =>
    LET c == report[i].confidence IN
    /\ c.den > 0
    /\ 0 <= c.num
    /\ c.num <= c.den

\* A call returned with some of its signals failed: a confidence strictly
\* between 0 and 1.
C18_Witness ==
  \E i \in Calls :
    /\ Resolved(i)
    /\ 0 < report[i].confidence.num
    /\ report[i].confidence.num < report[i].confidence.den

\* ---- C19
\* The components object the report of call i refers to, as it is now.
Live(i) == heap[report[i].components]

\* The optional signals call i requested.
Requested(i) == {s \in SignalSet : Enabled(opts[i], s)}

C20_BasicAlwaysPresent ==
  \A i \in Calls : Resolved(i) =>
    \A c \in {Snap(i), Live(i)} :
      /\ c["basic"].present
      /\ c["basic"].success
      /\ c["basic"].value # Null
      /\ c["basic"].value = basicHash

\* A report in which basic is the only component that succeeded.
C20_Witness ==
  \E i \in Calls :
    /\ Resolved(i)
    /\ Requested(i) # {}
    /\ \A s \in Requested(i) : ~Snap(i)[s].success
    /\ Snap(i)["basic"].success

\* ---- C21
\* The collector of signal s has been called in call i.
Invoked(i, s) == startedAt[i][s] # -1

\* The names that have an entry in the components object of call i.
EntriesOf(i) == {n \in ComponentNames : heap[compRef[i]][n].present}

\* C21: optional signals are opt-in: the collector of a signal is called, and
\* the signal has an entry in components, only if its resolved option is
\* enabled; with the default options no optional collector is called and
\* components holds only basic.
C21_OptionalSignalsOptIn ==
  \A i \in Calls : pc[i] # "idle" =>
    /\ \A s \in SignalSet :
         (Invoked(i, s) \/ s \in EntriesOf(i) \/ Snap(i)[s].present)
           => Enabled(opts[i], s)
    /\ opts[i] = DEFAULT_FINGERPRINT_OPTIONS
         => /\ \A s \in SignalSet : ~Invoked(i, s)
            /\ EntriesOf(i) = {"basic"}

\* A report with the entries of some signals and without those of others.
C21_Witness ==
  \E i \in Calls :
    /\ Resolved(i)
    /\ \E s \in SignalSet : Invoked(i, s) /\ Snap(i)[s].present
    /\ \E s \in SignalSet : ~Enabled(opts[i], s) /\ ~Snap(i)[s].present

\* ---- C22
\* A uuid has been formatted.
Encoded == applied = "encode"

\* C22: every uuid returned by get, getAsync and getDetailedAsync has 36
\* characters in the hexadecimal 8-4-4-4-12 layout, with '4' leading the
\* third group and one of 8, 9, a, b leading the fourth.
C22_UuidShape ==
  Encoded =>
    /\ Len(output) = 36
    /\ \A p \in 1..36 :
         IF p \in {9, 14, 19, 24} THEN output[p] = "-" ELSE output[p] \in HexSet
    /\ output[15] = "4"
    /\ output[20] \in {"8", "9", "a", "b"}

\* A digest whose own characters at the two forced places are others.
C22_Witness ==
  /\ Encoded
  /\ DigestOf(input)[13] # "4"
  /\ DigestOf(input)[17] \notin {"8", "9", "a", "b"}

\* ---- C29
\* The hexadecimal characters of a uuid, its dashes left out.
HexOf(uuid) == SelectSeq(uuid, LAMBDA ch : ch # "-")

\* C29: the uuid is the 32-character digest cut consecutively into groups of
\* 8-4-4-4-12 with only the leading character of the third group forced to
\* '4' and that of the fourth group to one of 8, 9, a, b: every other
\* character of the digest stands unchanged at its place in the uuid.
C29_DigestKeptInPlace ==
  Encoded =>
    /\ Len(HexOf(output)) = 32
    /\ HexOf(output)[13] = "4"
    /\ HexOf(output)[17] \in {"8", "9", "a", "b"}
    /\ \A p \in (1..32) \ {13, 17} : HexOf(output)[p] = DigestOf(input)[p]

\* ---- C23
\* C23: custom-data sensitivity: for any two custom-data arguments dataA and
\* dataB with dataA # dataB, get(dataA) # get(dataB) on the same instance in
\* the same environment.
C23_CustomDataSensitivity ==
  applied = "get" =>
    \A dataB \in CustomDatas :
      dataB # input.customData
        => get(input.options, dataB, input.env) # output

\* ---- C30
\* How many parts of the digested payload are the screen resolution.
ResolutionParts(uuid, env) ==
  LET payload == PayloadOf(uuid)
      text == join([k \in 1..Len(env.resolution) |-> <<env.resolution[k]>>], ",")
  IN Cardinality({p \in 1..(Len(payload) - Len(text) + 1) :
                    SubSeq(payload, p, p + Len(text) - 1) = text})

\* C30: in get(), the mobile rule appends the screen resolution only when the
\* device is mobile and the option template has not already included it, so
\* the resolution never appears more than once in the digested payload.
C30_ResolutionAtMostOnce ==
  applied = "get" => ResolutionParts(output, input.env) <= 1

\* ---- C26
\* The identity and form-factor flags of a profile.
ClassFlags ==
  {"isMobile", "isTablet", "isDesktop", "isSmartTV", "isiPad", "isiPod",
   "isiPhone", "isAndroid", "isBlackberry", "isWindows", "isLinux", "isMac",
   "isChromeOS", "isBada", "isSamsung", "isCurl", "isAndroidTablet",
   "isKindleFire", "isCaptive", "isWindowsPhone", "isChrome", "isSafari"}

\* The string given to parse is one no rule recognises: the empty string, or
\* a string that holds none of the markers.
Unrecognised(source) == source.given /\ source.ua = {}

\* C26: parse returns for every input string; when no rule recognises the
\* input (the empty string included), browser, version, os and platform are
\* "unknown" and every form-factor, browser, OS and device flag is false.
C26_UnrecognisedIsUnknown ==
  (Parsed /\ Unrecognised(input.source)) =>
    /\ output.browser = "unknown"
    /\ output.version = "unknown"
    /\ output.os = "unknown"
    /\ output.platform = "unknown"
    /\ \A f \in ClassFlags : ~output[f]

\* ---- C24
\* The string last assigned to device.userAgent before the k-th call, if one
\* was and no reset followed it.
AssignedBefore(k) ==
  {history[j].arg : j \in {j \in 1..(k - 1) :
      /\ history[j].op = "set"
      /\ \A m \in (j + 1)..(k - 1) : history[m].op \notin {"set", "reset"}}}

\* C24: after a string has been assigned to device.userAgent, device.parse()
\* without an argument classifies that string, and get() derives its uuid
\* from it.
C24_AssignedUserAgentParsed ==
  \A k \in DOMAIN history : \A value \in AssignedBefore(k) :
    /\ (history[k].op = "parse" /\ ~history[k].arg.given)
         => history[k].result = parse(GivenSource(value), input.env)
    /\ history[k].op = "get"
         => history[k].result =
              get(input.options, history[k].arg, [input.env EXCEPT !.ua = value])

\* ---- C25
\* The calls that read the device.
ReadingOps == {"parse", "get", "getComponents", "async"}

InFixedOrder(i) ==
  LET ss == SelectSeq(Signals, LAMBDA s : Snap(i)[s].success)
  IN [k \in 1..Len(ss) |-> Snap(i)[ss[k]].value]

\* C28: the payload digested for the final uuid is the basic hash followed by
\* the successful optional hashes in the fixed order canvas, webgl, audio,
\* fonts, mediaDevices, networkInfo, timezone, incognito, null and empty
\* entries removed.
C28_PayloadInFixedOrder ==
  \A i \in Calls : Resolved(i) =>
    PayloadOf(report[i].uuid) = <<basicHash>> \o InFixedOrder(i)

\* ---- C31
\* The browser rules in the order the specification gives them, each with
\* the name it returns.
PriorityOrder ==
  <<"Edge", "PhantomJS", "Konqueror", "Amaya", "Epiphany", "SeaMonkey",
    "Flock", "OmniWeb", "Opera", "Chromium", "Chrome", "Safari", "WinJs", "IE",
    "PS3", "PSP", "Firefox", "UC">>

ReturnedName(name) ==
  CASE name = "PS3" -> "ps3"
    [] name = "PSP" -> "psp"
    [] name = "UC" -> "UCBrowser"
    [] OTHER -> name

\* The rules of PriorityOrder that match the string.
Matching(source) ==
  {k \in 1..Len(PriorityOrder) : Test(PriorityOrder[k], source)}

\* The browser-identity flags of a profile.
BrowserFlags ==
  {"isEdge", "isPhantomJS", "isKonqueror", "isAmaya", "isEpiphany",
   "isSeaMonkey", "isFlock", "isOmniWeb", "isOpera", "isChrome", "isSafari",
   "isWinJs", "isIE", "isFirefox", "isUC"}

\* C31: the browser rules are tried in the order Edge, PhantomJS,
\* Konqueror, Amaya, Epiphany, SeaMonkey, Flock, OmniWeb, Opera, Chromium,
\* Chrome, Safari, WinJS, IE, PS3, PSP, Firefox, UC Browser, fallback: the
\* browser of the profile is the name of the first rule of that order that
\* matches, the fallback is used only when none matches, and at most one
\* browser-identity flag is true.
C31_FirstBrowserRuleWins ==
  Parsed =>
    LET hits == Matching(output.source)
    IN /\ hits # {} =>
            /\ output.browser =
                 ReturnedName(PriorityOrder[CHOOSE k \in hits : \A j \in hits : k <= j])
            /\ output.isAuthoritative
       /\ hits = {} =>
            output.browser = IF output.source \cap StartTokens # {}
                             THEN StartName(output.source) ELSE "unknown"
       /\ Cardinality({f \in BrowserFlags : output[f]}) <= 1

\* A string three rules match, the first of them neither the first nor the
\* last of the order.
C31_Witness ==
  /\ Parsed
  /\ Cardinality(Matching(output.source)) = 3
  /\ output.browser = "Chrome"
  /\ output.isChrome

\* ---- C32
\* One of the desktop-OS flags of the profile a is true.
DesktopOS(a) == a.isWindows \/ a.isLinux \/ a.isMac \/ a.isChromeOS

\* C32: in every profile parse returns, isDesktop is true exactly when one
\* of isWindows, isLinux, isMac, isChromeOS is true and the profile is not a
\* Smart TV.
C32_DesktopIffDesktopOS ==
  Parsed => (output.isDesktop <=> (DesktopOS(output) /\ ~output.isSmartTV))

\* ---- C33
\* C33: an input the platform rule classifies as Android and that lacks
\* "mobile" is returned as a tablet (isAndroidTablet and isTablet true,
\* isMobile false); an Android input that holds "mobile" and is no Smart TV
\* is returned with isMobile true and isAndroidTablet false.
C33_AndroidTabletRefinement ==
  (Parsed /\ output.isAndroid) =>
    /\ "mobile" \notin output.source =>
         (output.isAndroidTablet /\ output.isTablet /\ ~output.isMobile)
    /\ ("mobile" \in output.source /\ ~output.isSmartTV) =>
         (output.isMobile /\ ~output.isAndroidTablet)

\* An Android string without "mobile" that testMobile had marked mobile.
C33_Witness ==
  /\ Parsed
  /\ output.isAndroid
  /\ ~output.isSmartTV
  /\ "mobile" \notin output.source
  /\ output.isAndroidTablet
  /\ output.isTablet

\* ---- C34
\* C34: the loose "bot" test decides isBot only when no known bot token
\* matched and the browser came from the name/version fallback (the parse
\* is not authoritative): then isBot tells whether the string holds "bot";
\* a known token gives isBot that token; an authoritative parse with no
\* known token has isBot false even if the string holds "bot".
C34_LooseBotTestOnlyForFallback ==
  Parsed =>
    LET known == output.source \cap BOTS
    IN /\ known # {} => output.isBot \in known
       /\ (known = {} /\ ~output.isAuthoritative) =>
            output.isBot = (IF "bot" \in output.source THEN "true" ELSE "false")
       /\ (known = {} /\ output.isAuthoritative) => output.isBot = "false"

\* An authoritative parse of a string that holds "bot" and no known token.
C34_Witness ==
  /\ Parsed
  /\ output.isAuthoritative
  /\ output.browser = "Firefox"
  /\ "bot" \in output.source
  /\ output.source \cap BOTS = {}
  /\ output.isBot = "false"

\* ---- C35
\* The version getBrowserVersion parsed from the string, before the tests
\* run.
ParsedVersion(source) ==
  getBrowserVersion(getBrowser([DEFAULT_AGENT EXCEPT !.source = source], source),
                    source).version

\* The version an IE 7 string with the Trident token stands for.
ActualIE(token) ==
  CASE token = "trident/7.0" -> "11.0"
    [] token = "trident/6.0" -> "10.0"
    [] token = "trident/5.0" -> "9.0"
    [] token = "trident/4.0" -> "8.0"

\* C35: for an IE profile whose parsed version is 7 and whose string holds
\* a Trident token N.0 with N one of 7, 6, 5, 4, the version becomes 11.0,
\* 10.0, 9.0, 8.0 respectively and isIECompatibilityMode is set; in every
\* other case the version is the parsed one and the flag stays false.
C35_CompatibilityModeCorrection ==
  Parsed =>
    LET tokens == output.source \cap
                    {"trident/7.0", "trident/6.0", "trident/5.0", "trident/4.0"}
        before == ParsedVersion(output.source)
    IN IF output.isIE /\ before = "7.0" /\ tokens # {}
       THEN /\ output.version = ActualIE(CHOOSE t \in tokens : TRUE)
            /\ output.isIECompatibilityMode
       ELSE /\ output.version = before
            /\ ~output.isIECompatibilityMode

\* An IE 7 string with Trident/6.0 was corrected to IE 10.
C35_Witness ==
  /\ Parsed
  /\ output.isIE
  /\ "msie 7.0" \in output.source
  /\ "trident/6.0" \in output.source
  /\ output.version = "10.0"
  /\ output.isIECompatibilityMode

\* ---- C36
\* The fractions p and q are the same number (no denominator is 0).
SameNumber(p, q) == p.num * q.den = q.num * p.den

\* The fraction p is below the fraction q.
Below(p, q) ==
  IF (p.den > 0) = (q.den > 0) THEN p.num * q.den < q.num * p.den
  ELSE p.num * q.den > q.num * p.den

Zero == [num |-> 0, den |-> 1]

One == [num |-> 1, den |-> 1]

\* successful/total clamped to [0, 1], and 0 when total is 0.
ClampedRatio(total, successful) ==
  LET ratio == [num |-> successful, den |-> total]
  IN IF total = 0 THEN Zero
     ELSE IF Below(ratio, Zero) THEN Zero
     ELSE IF Below(One, ratio) THEN One
     ELSE ratio

\* C36: calculateConfidence(total, successful) is successful/total clamped
\* to [0, 1] for all numbers, successful > total and negative counts
\* included, and is 0 when total is 0.
C36_ConfidenceClamped ==
  applied = "calculateConfidence" =>
    SameNumber(output, ClampedRatio(input.total, input.successful))

\* ---- C37
\* hash*31 + charCode, wrapped to a signed 32-bit integer.
Step31(hash, chr) ==
  LET low == hash.lo * 31 + chr
      high == (hash.hi * 31 + low \div 65536) % 65536
  IN [hi |-> IF high >= 32768 THEN high - 65536 ELSE high, lo |-> low % 65536]

\* The left fold of Step31 over the characters of str, from 0.
RECURSIVE Fold31(_)
Fold31(str) ==
  IF str = <<>> THEN Int32(0)
  ELSE Step31(Fold31(SubSeq(str, 1, Len(str) - 1)), str[Len(str)])

\* C37: hashInt(s) is the left fold hash = hash*31 + charCode over the
\* characters of s, wrapped to a signed 32-bit integer after every step; it
\* is 0 for the empty string and always lies in [-2^31, 2^31 - 1].
C37_HashIntIsWrapped31Fold ==
  applied = "hashInt" =>
    /\ output = Fold31(input)
    /\ input = <<>> => output = Int32(0)
    /\ output.hi \in -32768..32767
    /\ output.lo \in 0..65535

\* A string whose hash had to be wrapped: the fold without wrapping passes
\* 2^31 and the result is negative.
C37_Witness ==
  /\ applied = "hashInt"
  /\ Len(input) = MaxLen
  /\ output.hi < 0

\* ---- C38
\* Call i was made with a preset name that is not in the table: its
\* resolved options have no key.
UnknownPreset(i) == pc[i] # "idle" /\ opts[i].keys = {}

\* C38: a call with an unrecognised preset name does not reject, calls no
\* optional collector and has only basic in components, as with the default
\* options; no per-signal timer is armed, and its global timer is the
\* default one, due 5000 ms after the call.
C38_UnknownPresetAsDefault ==
  \A i \in Calls : UnknownPreset(i) =>
    /\ pc[i] # "rejected"
    /\ \A s \in SignalSet : ~Invoked(i, s) /\ ~Enabled(opts[i], s)
    /\ EntriesOf(i) = {"basic"}
    /\ Resolved(i) =>
         /\ {n \in ComponentNames : Snap(i)[n].present} = {"basic"}
         /\ report[i].pending = {}
    /\ \A k \in 1..Len(timers) : timers[k].call = i =>
         (timers[k].kind = "global" /\ timers[k].at = 5000)
    /\ now < 5000 => GlobalTimerArmed(i)

\* A call with an unknown preset name has returned with basic alone.
C38_Witness ==
  \E i \in Calls :
    /\ UnknownPreset(i)
    /\ Resolved(i)
    /\ WellFormed(i)
    /\ Snap(i)["basic"].success

\* ---- C39
\* The components marked success=true in the report of call i as it was
\* returned.
Succeeded(i) == {n \in ComponentNames : Snap(i)[n].present /\ Snap(i)[n].success}

\* The component n of the report of call i has its value among the hashes
\* the uuid was digested from.
InUuid(i, n) ==
  /\ Snap(i)[n].present
  /\ \E k \in 1..Len(PayloadOf(report[i].uuid)) :
       PayloadOf(report[i].uuid)[k] = Snap(i)[n].value

\* The signals call i attempted: basic and every enabled signal.
Attempted(i) == {"basic"} \cup {s \in SignalSet : Enabled(opts[i], s)}

\* C39: in every report, as it is when it is returned, a component is
\* marked success=true exactly when its value is among the hashes combined
\* into the uuid and was counted as successful: the uuid is digested from
\* as many hashes as there are success=true components, and confidence is
\* that number divided by the number of attempted signals.
C39_ReportSelfConsistent ==
  \A i \in Calls : Resolved(i) =>
    /\ \A n \in ComponentNames : (n \in Succeeded(i)) <=> InUuid(i, n)
    /\ Len(PayloadOf(report[i].uuid)) = Cardinality(Succeeded(i))
    /\ report[i].confidence =
         [num |-> Cardinality(Succeeded(i)), den |-> Cardinality(Attempted(i))]

\* A report with a signal that succeeded besides basic and a signal
\* recorded as failed.
C39_Witness ==
  \E i \in Calls :
    /\ Resolved(i)
    /\ Cardinality(Succeeded(i)) = 2
    /\ Cardinality(Attempted(i)) > 2
    /\ \E n \in ComponentNames : Snap(i)[n].present /\ ~Snap(i)[n].success

\* ---- C40
\* C40: no timer outlives the wait it guards: once the promise given to
\* withTimeout(Promise.all(tasks), ...) has settled, and once the call has
\* returned, the timer that withTimeout scheduled is no longer pending.
C40_NoTimerOutlivesWait ==
  \A i \in Calls :
    (race[i] = "settled" \/ pc[i] \in {"done", "rejected"}) => ~GlobalTimerArmed(i)

====
